---- MODULE Spec2Model ----
(***************************************************************************)
(* Model of the blade pipeline of evotl: the adaptive control-section      *)
(* selector (src/select_sections.py, auto_select_sections and its          *)
(* helpers), the grid builder and the interpolation closure (src/grid.py), *)
(* the loaders (src/io_blade.py) and the writers of blade.ref and          *)
(* blade.beam (src/refs_nodes.py, src/beam.py).  Each function has its own *)
(* specification over the shared initial state: Spec and FairSpec for the  *)
(* selector, GridSpec, ClosSpec, LoadSpec and WriteSpec.                   *)
(*                                                                         *)
(* Numbers of the selector.  The code computes in binary64.  The model     *)
(* computes exactly:                                                       *)
(*   - a span position is an integer code.  Unit is the code of 1.0, the   *)
(*     even codes are the grid positions k/Grid, and the code p - EPS is   *)
(*     the position p - 1e-12 (from the grid stations the only way the    *)
(*     code leaves the grid is the clamp rmax - _EPS).  A code c < 0 is    *)
(*     the position c * 1e-12: the stations 1e-12 apart;                   *)
(*   - a raw signal value is a small integer, an interpolated value is an  *)
(*     integer count of 1/YScale;                                          *)
(*   - a relative error or tolerance is a pair <<num, den>>, den > 0.      *)
(* Div is exact division: it has no value when the quotient would be       *)
(* rounded, so a run that left the grid would have no next state.          *)
(***************************************************************************)
EXTENDS Integers, Sequences, FiniteSets, TLC

\* ------------------------------------------------------------ bounds
\* Stations lie at the integer positions 0..MaxX.
MaxX == 3
\* The small element caps explored are 1..MaxCap (the default cap is DefaultCap).
MaxCap == 2
\* The sweeps of the refinement loop are counted up to MaxSweeps.
MaxSweeps == 41

\* ------------------------------------------------------ number coding
Grid == 2 ^ 8
Unit == 2 * Grid
\* _EPS = 1e-12 in position codes: below every grid step (2), above 0.
EPS == 1

RECURSIVE Gcd(_, _)
Gcd(a, b) == IF b = 0 THEN a ELSE Gcd(b, a % b)

RECURSIVE LcmUpTo(_)
LcmUpTo(n) == IF n <= 1 THEN 1
              ELSE LET l == LcmUpTo(n - 1) IN (l * n) \div Gcd(l, n)

\* Interpolated values are counted in 1/YScale: every station spacing and
\* every grid offset divides it, with one factor 2 for the chord midpoint.
YScale == 2 * Grid * LcmUpTo(MaxX)

Abs(a) == IF a < 0 THEN 0 - a ELSE a
Max2(a, b) == IF a >= b THEN a ELSE b
Min2(a, b) == IF a <= b THEN a ELSE b

\* Exact quotient n/d; no value when d does not divide n.
Div(n, d) == IF n % d = 0 THEN n \div d ELSE CHOOSE q \in {} : TRUE

\* 0.5*(a+b) for a < b: a grid position between grid positions, and the
\* code halfway between two codes of the stations 1e-12 apart.
Midpoint(a, b) == IF b <= 0 THEN Div(a + b, 2) ELSE 2 * Div(a + b, 4)

\* Optional[float]: <<>> is None, <<v>> is the value v.
None == << >>
Some(v) == << v >>
IsNone(o) == o = << >>
Val(o) == o[1]

\* a/b > c/d and a/b >= c/d for fractions with positive denominators.
FracGt(p, q) == p[1] * q[2] > q[1] * p[2]
FracGe(p, q) == p[1] * q[2] >= q[1] * p[2]

\* ------------------------------------------------------------- tags
\* A reason tag "KIND:sig"; tol is the formatted tolerance of an ERR tag.
Tag(kind, sig) == [kind |-> kind, sig |-> sig, tol |-> ""]
TagSTART == Tag("START", "")
TagEND == Tag("END", "")
TagMAXDR == Tag("MAX_DR", "")

\* f"ERR>{cfg.err_tol:.3f}:{code}"
Fmt3(tol) == CASE tol = <<1, 20>> -> "0.050"
               [] tol = <<1, 4>> -> "0.250"
               [] tol = <<1, 2>> -> "0.500"
               [] OTHER -> "?"
ErrTag(tol, code) == [kind |-> "ERR", sig |-> code, tol |-> Fmt3(tol)]

\* ---------------------------------------------------------- helpers
\* F(v), the value v being computed once and then used by name, as an
\* assignment to a local variable does.
Once(v, F(_)) == CHOOSE r \in {F(x) : x \in {v}} : TRUE

\* _interp1: clamped linear interpolation of the raw series (x, y) at xi,
\* in 1/YScale.
Interp1(x, y, xi) ==
    IF Len(x) = 0 THEN 0
    ELSE IF xi <= x[1] THEN YScale * y[1]
    ELSE IF xi >= x[Len(x)] THEN YScale * y[Len(x)]
    ELSE LET j == CHOOSE k \in 1..(Len(x) - 1) : x[k] <= xi /\ xi < x[k + 1]
         IN  YScale * y[j]
               + Div((y[j + 1] - y[j]) * YScale * (xi - x[j]), x[j + 1] - x[j])

\* _add_reason
AddReason(reasons, r, why) ==
    LET cur == IF r \in DOMAIN reasons THEN reasons[r] ELSE << >>
        new == IF \E i \in 1..Len(cur) : cur[i] = why THEN cur
               ELSE Append(cur, why)
    IN  [k \in (DOMAIN reasons) \cup {r} |-> IF k = r THEN new ELSE reasons[k]]

RECURSIVE AddReasons(_, _, _)
\* _add_reason(reasons, rr, why) for each rr of the list rs, in order.
AddReasons(reasons, rs, why) ==
    IF rs = << >> THEN reasons
    ELSE Once(AddReason(reasons, Head(rs), why), LAMBDA added : AddReasons(added, Tail(rs), why))

\* reasons.pop(r, None)
PopReason(reasons, r) == [k \in (DOMAIN reasons) \ {r} |-> reasons[k]]

ProtectedKinds == {"START", "END", "JUMP", "VERTEX"}

\* _is_protected testing the whole tag against the bare kinds, so that a
\* JUMP:<signal> or VERTEX:Chord tag protects nothing.
IsProtectedBareOnly(reasons, r) ==
    LET tags == IF r \in DOMAIN reasons THEN reasons[r] ELSE << >>
    IN  \E i \in 1..Len(tags) : tags[i].kind \in ProtectedKinds /\ tags[i].sig = ""

\* _is_protected
IsProtected(reasons, r) ==
    LET tags == IF r \in DOMAIN reasons THEN reasons[r] ELSE << >>
    IN  \E i \in 1..Len(tags) : tags[i].kind \in ProtectedKinds

\* sorted(vals)
RECURSIVE InsertSorted(_, _)
InsertSorted(v, s) ==
    IF s = << >> THEN << v >>
    ELSE IF v <= Head(s) THEN << v >> \o s
    ELSE << Head(s) >> \o InsertSorted(v, Tail(s))

RECURSIVE Sorted(_)
Sorted(vals) ==
    IF vals = << >> THEN << >>
    ELSE Once(Sorted(Tail(vals)), LAMBDA s : InsertSorted(Head(vals), s))

\* The binary64 value of rmax - (rmax - 1e-12) > 1e-12 for the station
\* positions of the model: 1.0 - 0.999999999999 = 9.99978e-13 (false), while
\* for 2.0, 3.0, 4.0 and 5.0 the difference is 1.00009e-12 (true).  For the
\* stations 1e-12 apart the difference is 1e-12 itself: 0.0 - (-1e-12) and
\* -1e-12 - (-2e-12) are exact (false).
ClampGapExceedsEps(v) == v > 0 /\ v # Unit

\* v - u > 1e-12 (line 156), for u <= v
FarApart(u, v) ==
    IF v - u = EPS THEN ClampGapExceedsEps(v) ELSE v - u > EPS

RECURSIVE KeepFar(_, _)
\* the loop of _ensure_sorted_unique: uniq so far, the rest of arr
KeepFar(uniq, rest) ==
    IF rest = << >> THEN uniq
    ELSE IF FarApart(uniq[Len(uniq)], Head(rest))
         THEN KeepFar(Append(uniq, Head(rest)), Tail(rest))
         ELSE KeepFar(uniq, Tail(rest))

\* _ensure_sorted_unique
EnsureSortedUnique(vals) ==
    Once(vals, LAMBDA v :
        Once(Sorted(v), LAMBDA arr :
            IF Len(arr) = 0 THEN << >> ELSE KeepFar(<< arr[1] >>, Tail(arr))))

\* _detect_jumps with the comparison turned round: rel <= jump_tol
JumpAtReversed(y0, y1, jump_tol) ==
    LET base == Max2(Abs(y0), Abs(y1))
        rel == IF base = 0 THEN << 0, 1 >> ELSE << Abs(y1 - y0), base >>
    IN  FracGe(jump_tol, rel)

\* rel >= jump_tol (lines 108-111) for neighbours y0, y1; base = max(|y0|,|y1|,_EPS)
    \* and raw values are integers, so base = _EPS only when both are zero.
JumpAt(y0, y1, jump_tol) ==
    LET base == Max2(Abs(y0), Abs(y1))
        rel == IF base = 0 THEN << 0, 1 >> ELSE << Abs(y1 - y0), base >>
    IN  FracGe(rel, jump_tol)

RECURSIVE DetectJumpsFrom(_, _, _, _, _)
DetectJumpsFrom(i, x, y, r_start, jump_tol) ==
    IF i > Len(x) THEN << >>
    ELSE LET rest == DetectJumpsFrom(i + 1, x, y, r_start, jump_tol)
         IN  IF x[i] < r_start THEN rest
             ELSE IF JumpAt(y[i - 1], y[i], jump_tol) THEN << x[i] >> \o rest
             ELSE rest

\* _detect_jumps
DetectJumps(x, y, r_start, jump_tol) == DetectJumpsFrom(2, x, y, r_start, jump_tol)

RECURSIVE MaxAbs(_)
MaxAbs(c) == IF c = << >> THEN 0 ELSE Max2(Abs(Head(c)), MaxAbs(Tail(c)))

\* the test of line 134 with dL * dR < 0: a flat side makes no vertex
VertexAtStrict(c, i) ==
    LET dL == c[i] - c[i - 1]
        dR == c[i + 1] - c[i]
    IN  dL * dR < 0 /\ 1000 * Max2(Abs(dL), Abs(dR)) > MaxAbs(c)

\* the test of line 134: a slope-sign change larger than 1e-3 * max|chord|
VertexAt(c, i) ==
    LET dL == c[i] - c[i - 1]
        dR == c[i + 1] - c[i]
    IN  dL * dR <= 0 /\ 1000 * Max2(Abs(dL), Abs(dR)) > MaxAbs(c)

RECURSIVE DetectVerticesFrom(_, _, _, _)
DetectVerticesFrom(i, r, c, r_start) ==
    IF i > Len(r) - 1 THEN << >>
    ELSE LET rest == DetectVerticesFrom(i + 1, r, c, r_start)
         IN  IF r[i] < r_start THEN rest
             ELSE IF VertexAt(c, i) THEN << r[i] >> \o rest
             ELSE rest

\* aero is not None and aero.Chord
HasChord(aero) == aero.present /\ Len(aero.Chord) > 0

\* _detect_chord_vertices
DetectChordVertices(aero, r_start) ==
    IF ~HasChord(aero) \/ Len(aero.Radial) < 3 THEN << >>
    ELSE IF MaxAbs(aero.Chord) <= 0 THEN << >>
    ELSE DetectVerticesFrom(2, aero.Radial, aero.Chord, r_start)

\* _auto_r_start_from_aero: None, or the first radial whose chord exceeds
\* c_eps, clamped to [rmin, rmax)
AutoRStartFromAero(aero, c_eps, rmin, rmax) ==
    IF ~HasChord(aero) THEN None
    ELSE IF MaxAbs(aero.Chord) <= 0 THEN None
    ELSE LET idx == {i \in 1..Len(aero.Chord) : FracGt(<< aero.Chord[i], 1 >>, c_eps)}
         IN  IF idx = {} THEN None
             ELSE LET i0 == CHOOSE i \in idx : \A j \in idx : i <= j
                      r0 == aero.Radial[i0]
                  IN  Some(Max2(rmin, Min2(r0, Max2(rmin, rmax - EPS))))

\* _auto_r_start_from_struct with the threshold 1e-6 * maxv, without the floor
\* max(1.0, maxv)
AutoRStartFromStructNoFloor(tip) ==
    LET maxv == MaxAbs(tip.EA \o tip.EJY \o tip.EJZ \o tip.GJ)
        Over(y) == 1000000 * y > maxv
        hit == {i \in 1..Len(tip.STA) :
                  Over(tip.EA[i]) \/ Over(tip.EJY[i]) \/ Over(tip.EJZ[i]) \/ Over(tip.GJ[i])}
    IN  IF hit = {} THEN tip.STA[1]
        ELSE tip.STA[CHOOSE i \in hit : \A j \in hit : i <= j]

\* _auto_r_start_from_struct
AutoRStartFromStruct(tip) ==
    LET maxv == MaxAbs(tip.EA \o tip.EJY \o tip.EJZ \o tip.GJ)
        \* y > 1e-6 * max(1.0, maxv); tip.unit is the raw value of 1.0
        Over(y) == 1000000 * y > Max2(tip.unit, maxv)
        hit == {i \in 1..Len(tip.STA) :
                  Over(tip.EA[i]) \/ Over(tip.EJY[i]) \/ Over(tip.EJZ[i]) \/ Over(tip.GJ[i])}
    IN  IF hit = {} THEN tip.STA[1]
        ELSE tip.STA[CHOOSE i \in hit : \A j \in hit : i <= j]

\* The tracked signals, in the order of the code's loops.
StructSignals(tip) ==
    << << "EA", tip.EA >>, << "EJY", tip.EJY >>, << "EJZ", tip.EJZ >>, << "GJ", tip.GJ >> >>

\* lines 196-203: the start position used
StartUsed(tip, aero, cfg) ==
    LET rmin == tip.STA[1]
        rmax == tip.STA[Len(tip.STA)]
        fromAero == AutoRStartFromAero(aero, cfg.c_eps, rmin, rmax)
        \* a or b: None and 0.0 are both falsy
        auto == IF IsNone(fromAero) \/ Val(fromAero) = 0
                THEN AutoRStartFromStruct(tip) ELSE Val(fromAero)
        r0 == IF ~IsNone(cfg.r_start) THEN Val(cfg.r_start) ELSE auto
        r1 == IF r0 < rmin THEN rmin ELSE r0
    IN  IF r1 >= rmax THEN Max2(rmin, rmax - EPS) ELSE r1

\* rr >= r0 and rr <= rmax
RECURSIVE InDomain(_, _, _)
InDomain(rs, r0, rmax) ==
    IF rs = << >> THEN << >>
    ELSE IF Head(rs) >= r0 /\ Head(rs) <= rmax
         THEN << Head(rs) >> \o InDomain(Tail(rs), r0, rmax)
         ELSE InDomain(Tail(rs), r0, rmax)

RECURSIVE StructJumps(_, _, _, _, _)
\* lines 219-224: the state [sections, reasons] after the signals sigs
StructJumps(st, sigs, x, r0, cfg) ==
    IF sigs = << >> THEN st
    ELSE LET js == InDomain(DetectJumps(x, Head(sigs)[2], r0, cfg.jump_tol),
                            r0, x[Len(x)])
             nx == [sections |-> st.sections \o js,
                    reasons |-> AddReasons(st.reasons, js, Tag("JUMP", Head(sigs)[1]))]
         IN  StructJumps(nx, Tail(sigs), x, r0, cfg)

\* lines 205-239: sections as appended, before the deduplication of line 242,
\* and reasons
HardAppended(tip, aero, cfg, r0) ==
    LET rmax == tip.STA[Len(tip.STA)]
        s0 == [sections |-> << r0, rmax >>,
               reasons |-> AddReason(AddReason(<< >>, r0, TagSTART), rmax, TagEND)]
        s1 == StructJumps(s0, StructSignals(tip), tip.STA, r0, cfg)
        js_c == InDomain(DetectJumps(aero.Radial, aero.Chord, r0, cfg.jump_tol), r0, rmax)
        vs_c == InDomain(DetectChordVertices(aero, r0), r0, rmax)
        s2 == IF HasChord(aero)
              THEN [sections |-> s1.sections \o js_c \o vs_c,
                    reasons |-> AddReasons(AddReasons(s1.reasons, js_c, Tag("JUMP", "Chord")),
                                           vs_c, Tag("VERTEX", "Chord"))]
              ELSE s1
    IN  s2

\* lines 205-242: the hard constraints and the base set
HardConstraints(tip, aero, cfg, r0) ==
    Once(HardAppended(tip, aero, cfg, r0), LAMBDA s2 :
        [sections |-> EnsureSortedUnique(s2.sections), reasons |-> s2.reasons,
         warnings |-> << >>, again |-> TRUE])

RECURSIVE KeysAdded(_, _)
\* The keys of the dict reasons, in the order the dict holds them (the order
\* of their first _add_reason), after entries for the positions pts were
\* added in turn: reasons.setdefault(r, []) appends a key that is new.
KeysAdded(keys, pts) ==
    IF pts = << >> THEN keys
    ELSE IF \E i \in 1..Len(keys) : keys[i] = Head(pts) THEN KeysAdded(keys, Tail(pts))
    ELSE KeysAdded(Append(keys, Head(pts)), Tail(pts))


\* ------------------------------------------------- 4a) max_dr (lines 244-264)
\* int(math.floor(dr / cfg.max_dr)): the part count rounded down
CeilDivFloor(dr, m) == dr \div m

\* int(math.ceil(dr / cfg.max_dr)) for positive dr, max_dr
CeilDiv(dr, m) == (dr + m - 1) \div m

RECURSIVE PartsFrom(_, _, _, _)
\* a + dr * k / n for k, k+1, ..., n-1 (grid positions: even codes)
PartsFrom(k, n, a, dr) ==
    IF k >= n THEN << >>
    ELSE << a + 2 * Div(dr * k, 2 * n) >> \o PartsFrom(k + 1, n, a, dr)

RECURSIVE MaxDrPoints(_, _, _)
\* new_pts of one pass over the intervals i, i+1, ... of sections
MaxDrPoints(i, sections, max_dr) ==
    IF i >= Len(sections) THEN << >>
    ELSE LET a == sections[i]
             dr == sections[i + 1] - a
             here == IF dr > max_dr + EPS
                     THEN PartsFrom(1, CeilDiv(dr, max_dr), a, dr) ELSE << >>
         IN  here \o MaxDrPoints(i + 1, sections, max_dr)

RECURSIVE TagNew(_, _, _)
\* if rp not in reasons: _add_reason(reasons, rp, why)
TagNew(reasons, pts, why) ==
    IF pts = << >> THEN reasons
    ELSE Once(IF Head(pts) \in DOMAIN reasons THEN reasons
              ELSE AddReason(reasons, Head(pts), why),
              LAMBDA added : TagNew(added, Tail(pts), why))

\* One iteration of the while loop of lines 247-264; again: the loop runs on.
MaxDrMerge(st, new_pts, cfg) ==
    Once(IF new_pts # << >> THEN EnsureSortedUnique(st.sections \o new_pts) ELSE st.sections,
         LAMBDA secs :
            [sections |-> secs, reasons |-> TagNew(st.reasons, new_pts, TagMAXDR),
             warnings |-> st.warnings,
             again |-> new_pts # << >> /\ ~(Len(secs) - 1 >= cfg.max_elems)])

MaxDrIter(st, cfg) ==
    Once(MaxDrPoints(1, st.sections, Val(cfg.max_dr)), LAMBDA new_pts : MaxDrMerge(st, new_pts, cfg))

\* cfg.max_dr is not None and cfg.max_dr > 0
MaxDrActive(cfg) == ~IsNone(cfg.max_dr) /\ Val(cfg.max_dr) > 0

\* ------------------------------------------ 3) refinement (lines 266-303)
\* _mid_error: the relative midpoint error, as a fraction
\* lines 144-148 of _mid_error, from the interpolated values ya, yb, ym
MidErrorOf(ya, yb, ym, a, b, rm) ==
    LET ylin == ya + Div((yb - ya) * (rm - a), b - a)
        m == Max2(Abs(ym), Max2(Abs(ya), Abs(yb)))
    \* denom = max(|ym|, |ya|, |yb|, _EPS): _EPS only when all three are 0
    IN  IF m = 0 THEN << 0, 1 >> ELSE << Abs(ym - ylin), m >>

MidError(x, y, a, b) ==
    IF b <= a + EPS THEN << 0, 1 >>
    ELSE Once(<< Interp1(x, y, a), Interp1(x, y, b), Interp1(x, y, Midpoint(a, b)) >>,
              LAMBDA v : MidErrorOf(v[1], v[2], v[3], a, b, Midpoint(a, b)))

RECURSIVE MaxErr(_, _)
\* max(errs, key=lambda t: t[0]): the first entry with the largest error
MaxErr(best, rest) ==
    IF rest = << >> THEN best
    ELSE IF FracGt(Head(rest)[1], best[1]) THEN MaxErr(Head(rest), Tail(rest))
    ELSE MaxErr(best, Tail(rest))

MaxErrOf(errs) == Once(errs, LAMBDA e : MaxErr(Head(e), Tail(e)))

\* err_any looking at EA only
ErrAnyFirstOnly(tip, aero, a, b) == << MidError(tip.STA, tip.EA, a, b), "EA" >>

\* err_any: << emax, code >>
ErrAny(tip, aero, a, b) ==
    LET sigs == StructSignals(tip)
        errs == [i \in 1..Len(sigs) |-> << MidError(tip.STA, sigs[i][2], a, b), sigs[i][1] >>]
                  \o (IF HasChord(aero)
                      THEN << << MidError(aero.Radial, aero.Chord, a, b), "Chord" >> >>
                      ELSE << >>)
    IN  MaxErrOf(errs)

\* The test of line 294 reading err_tol as the accuracy wanted:
\* emax > 1 - err_tol
ErrPointAccuracy(e, a, b, err_tol) ==
    IF FracGt(e[1], << err_tol[2] - err_tol[1], err_tol[2] >>)
    THEN << << Midpoint(a, b), ErrTag(err_tol, e[2]) >> >>
    ELSE << >>

\* lines 294-297: the midpoint of [a, b] with its tag if the error e = << emax,
\* code >> exceeds err_tol
ErrPoint(e, a, b, err_tol) ==
    IF FracGt(e[1], err_tol) THEN << << Midpoint(a, b), ErrTag(err_tol, e[2]) >> >>
    ELSE << >>

\* lines 288-297: the body of the for loop for the interval [a, b]
IntervalPoint(a, b, tip, aero, cfg) ==
    IF ~IsNone(cfg.min_dr) /\ b - a <= Val(cfg.min_dr) + EPS THEN << >>
    ELSE Once(ErrAny(tip, aero, a, b), LAMBDA e : ErrPoint(e, a, b, cfg.err_tol))

RECURSIVE RefinePoints(_, _, _, _, _)
\* new_pts of one sweep over the intervals i, i+1, ...: << rm, why >> pairs
RefinePoints(i, sections, tip, aero, cfg) ==
    IF i >= Len(sections) THEN << >>
    ELSE IntervalPoint(sections[i], sections[i + 1], tip, aero, cfg)
           \o RefinePoints(i + 1, sections, tip, aero, cfg)

RECURSIVE AddTagged(_, _)
AddTagged(reasons, pts) ==
    IF pts = << >> THEN reasons
    ELSE Once(AddReason(reasons, Head(pts)[1], Head(pts)[2]),
              LAMBDA added : AddTagged(added, Tail(pts)))

\* The loop test of line 285 (changed is true on entry).
RefineEnter(st, cfg) == Len(st.sections) - 1 < cfg.max_elems

\* One sweep (the body of the loop of lines 285-303); again: the loop runs on.
\* lines 298-303: the sweep's new points merged into the sections
RefineMerge(st, new_pts, cfg) ==
    Once(IF new_pts # << >>
         THEN EnsureSortedUnique(st.sections \o [i \in 1..Len(new_pts) |-> new_pts[i][1]])
         ELSE st.sections,
         LAMBDA secs :
            [sections |-> secs, reasons |-> AddTagged(st.reasons, new_pts),
             warnings |-> st.warnings,
             again |-> new_pts # << >> /\ ~(Len(secs) - 1 >= cfg.max_elems)])

RefineIter(st, tip, aero, cfg) ==
    Once(RefinePoints(1, st.sections, tip, aero, cfg), LAMBDA new_pts : RefineMerge(st, new_pts, cfg))

\* --------------------------------------------- 4b) min_dr (lines 305-324)
\* cfg.min_dr is not None and cfg.min_dr > 0
MinDrActive(cfg) == ~IsNone(cfg.min_dr) /\ Val(cfg.min_dr) > 0

RemoveAt(s, i) == [k \in 1..(Len(s) - 1) |-> IF k < i THEN s[k] ELSE s[k + 1]]

\* the test of line 318 looking at the left interval only
TooShortAtLeftOnly(sections, reasons, i, min_dr) ==
    /\ sections[i] - sections[i - 1] < min_dr - EPS
    /\ ~IsProtected(reasons, sections[i])

\* the test of line 318 for the interior section at index i (from 1)
TooShortAt(sections, reasons, i, min_dr) ==
    /\ Min2(sections[i] - sections[i - 1], sections[i + 1] - sections[i]) < min_dr - EPS
    /\ ~IsProtected(reasons, sections[i])

MinDrWarning(r) == [kind |-> "min_dr merge: removed section", r |-> r]

\* One iteration of the while loop of lines 308-324; again: a section was removed.
MinDrIter(st, cfg) ==
    LET secs == st.sections
        hits == IF Len(secs) <= 2 THEN {}
                ELSE {i \in 2..(Len(secs) - 1) : TooShortAt(secs, st.reasons, i, Val(cfg.min_dr))}
    IN  IF hits = {} THEN [st EXCEPT !.again = FALSE]
        ELSE LET i == CHOOSE k \in hits : \A j \in hits : k <= j
             IN  [sections |-> RemoveAt(secs, i),
                  reasons |-> PopReason(st.reasons, secs[i]),
                  warnings |-> Append(st.warnings, MinDrWarning(secs[i])),
                  again |-> TRUE]

\* -------------------------------------------------- cap (lines 326-337)
CapWarning == [kind |-> "max_elems limit reached but cannot drop protected sections.", r |-> 0]

\* sorted(candidates)[-1] among the nearest: least |r - mid|, then greatest index
CapChoiceLastTie(sections, reasons) ==
    LET n == Len(sections)
        d(i) == Abs(2 * sections[i] - (sections[1] + sections[n]))
        cand == {i \in 2..(n - 1) : ~IsProtected(reasons, sections[i])}
    IN  IF cand = {} THEN 0
        ELSE CHOOSE i \in cand : \A j \in cand : d(i) < d(j) \/ (d(i) = d(j) /\ i >= j)

\* sorted(candidates)[0]: least |r - mid|, then least index
CapChoice(sections, reasons) ==
    LET n == Len(sections)
        \* mid = 0.5 * (sections[0] + sections[-1]); distances are compared doubled
        d(i) == Abs(2 * sections[i] - (sections[1] + sections[n]))
        cand == {i \in 2..(n - 1) : ~IsProtected(reasons, sections[i])}
    IN  IF cand = {} THEN 0
        ELSE CHOOSE i \in cand : \A j \in cand : d(i) < d(j) \/ (d(i) = d(j) /\ i <= j)

\* One test-and-body of the while loop of lines 328-337; again: the loop runs on.
CapIter(st, cfg) ==
    IF ~(Len(st.sections) - 1 > cfg.max_elems) THEN [st EXCEPT !.again = FALSE]
    ELSE LET i == CapChoice(st.sections, st.reasons)
         IN  IF i = 0
             THEN [st EXCEPT !.warnings = Append(st.warnings, CapWarning), !.again = FALSE]
             ELSE [sections |-> RemoveAt(st.sections, i),
                   reasons |-> PopReason(st.reasons, st.sections[i]),
                   warnings |-> st.warnings,
                   again |-> TRUE]

\* ------------------------------------------------ report (lines 339-357)
RECURSIVE DedupKeepOrder(_)
\* list(dict.fromkeys(warnings))
DedupKeepOrder(w) ==
    IF w = << >> THEN << >>
    ELSE Once(DedupKeepOrder(SubSeq(w, 1, Len(w) - 1)), LAMBDA rest :
            IF \E i \in 1..Len(rest) : rest[i] = w[Len(w)] THEN rest
            ELSE Append(rest, w[Len(w)]))

MakeReport(secs, reasons, r0, warnings) ==
    [sections |-> secs, reasons |-> reasons, r_start_used |-> r0,
     elems |-> Max2(0, Len(secs) - 1), nodes |-> Max2(0, 2 * Len(secs) - 1),
     warnings |-> DedupKeepOrder(warnings)]

\* ------------------------------------------- the whole call, as a function
RECURSIVE MaxDrLoop(_, _)
MaxDrLoop(st, cfg) ==
    LET nx == MaxDrIter(st, cfg) IN IF nx.again THEN MaxDrLoop(nx, cfg) ELSE nx

RECURSIVE RefineLoop(_, _, _, _)
RefineLoop(st, tip, aero, cfg) ==
    LET nx == RefineIter(st, tip, aero, cfg)
    IN  IF nx.again THEN RefineLoop(nx, tip, aero, cfg) ELSE nx

RECURSIVE MinDrLoop(_, _)
MinDrLoop(st, cfg) ==
    LET nx == MinDrIter(st, cfg) IN IF nx.again THEN MinDrLoop(nx, cfg) ELSE nx

RECURSIVE CapLoop(_, _)
CapLoop(st, cfg) ==
    LET nx == CapIter(st, cfg) IN IF nx.again THEN CapLoop(nx, cfg) ELSE nx

\* auto_select_sections for at least one station: the report returned
Select(tip, aero, cfg) ==
    LET s0 == HardConstraints(tip, aero, cfg, StartUsed(tip, aero, cfg))
        s1 == IF MaxDrActive(cfg) THEN MaxDrLoop(s0, cfg) ELSE s0
        s2 == IF RefineEnter(s1, cfg) THEN RefineLoop(s1, tip, aero, cfg) ELSE s1
        s3 == IF MinDrActive(cfg) THEN MinDrLoop(s2, cfg) ELSE s2
        s4 == CapLoop([s3 EXCEPT !.sections = EnsureSortedUnique(s3.sections)], cfg)
    IN  MakeReport(EnsureSortedUnique(s4.sections), s4.reasons,
                   StartUsed(tip, aero, cfg), s4.warnings)

\* ------------------------------------------------------------ inputs
\* Raw signal values.
YVals == {0, 1, 2}
\* SectionSelectionConfig defaults (lines 26-32)
DefaultErrTol == << 1, 20 >>
DefaultJumpTol == << 1, 10 >>
DefaultCap == 40
DefaultCEps == << 1, 1000 >>
DefaultCfg ==
    [r_start |-> None, err_tol |-> DefaultErrTol, jump_tol |-> DefaultJumpTol,
     max_elems |-> DefaultCap, max_dr |-> None, min_dr |-> None, c_eps |-> DefaultCEps]

ErrTols == {DefaultErrTol, << 1, 2 >>}
Lengths == {None, Some(Unit), Some(2 * Unit)}
\* min_dr also takes a value 1e-12 below a grid length: in binary64
\* (2.0 - 1e-12) + 1e-12 = 2.0, so min_dr + _EPS is the grid length itself.
\* and a value 1e-12 above one: (1.0 + 1e-12) - 1e-12 = 1.0, so min_dr - _EPS
\* is the grid length itself.
MinLengths == Lengths \cup {Some(2 * Unit - EPS), Some(Unit + EPS)}
\* max_dr also takes the value 1e-12 below the longest span of the model:
\* (p - 1e-12) + 1e-12 = p, so max_dr + _EPS is that span.
MaxLengths == Lengths \cup {Some(MaxX * Unit - EPS)}

\* How many fields differ from their defaults.
NonDefault(c) ==
    LET B(p) == IF p THEN 1 ELSE 0
    IN  B(c.r_start # None) + B(c.err_tol # DefaultErrTol) + B(c.jump_tol # DefaultJumpTol)
          + B(c.max_elems # DefaultCap) + B(c.max_dr # None) + B(c.min_dr # None)

\* The configurations explored: at most two fields away from the defaults.
Configs ==
    {c \in [r_start : {None, Some(Unit), Some(MaxX * Unit)},
            err_tol : ErrTols,
            jump_tol : {DefaultJumpTol, << 3, 4 >>},
            max_elems : (1..MaxCap) \cup {DefaultCap},
            max_dr : MaxLengths, min_dr : MinLengths, c_eps : {DefaultCEps}] : NonDefault(c) <= 2}

RECURSIVE SetToSeq(_)
\* The elements of a set of integers in ascending order.
SetToSeq(S) ==
    IF S = {} THEN << >>
    ELSE LET m == CHOOSE a \in S : \A b \in S : a <= b IN << m >> \o SetToSeq(S \ {m})

Reverse(v) == [i \in 1..Len(v) |-> v[Len(v) + 1 - i]]

\* TipData with stations at the positions S: EA and EJY carry v, EJZ and GJ
\* carry v or its mirror image.  The raw signal values count in 1/unit: the
\* raw value unit is 1.0.
TipOf(S, v, mirror) ==
    LET sta == SetToSeq(S)
        w == IF mirror THEN Reverse(v) ELSE v
    IN  [STA |-> [i \in 1..Len(sta) |-> Unit * sta[i]], EA |-> v, EJY |-> v, EJZ |-> w, GJ |-> w,
         unit |-> 1]

Tips ==
    UNION {{TipOf(S, v, m) : v \in [1..Cardinality(S) -> YVals], m \in BOOLEAN} :
           S \in SUBSET (0..MaxX)}

NoAero == [present |-> FALSE, Radial |-> << >>, Chord |-> << >>]

\* AeroData with radial stations at the positions S and chord c.
AeroOf(S, c) ==
    LET r == SetToSeq(S)
    IN  [present |-> TRUE, Radial |-> [i \in 1..Len(r) |-> Unit * r[i]], Chord |-> c]

Aeros ==
    UNION {{AeroOf(S, c) : c \in [1..Cardinality(S) -> YVals]} :
           S \in {{}, {1, MaxX}, 0..MaxX}}

\* Tips with every signal equal to 1, for the runs with aerodynamic data.
FlatTips ==
    {TipOf(S, [i \in 1..Cardinality(S) |-> 1], FALSE) :
       S \in {0..MaxX, {0, MaxX}, 1..(MaxX - 1), {0, 1}}}

\* A tip whose signals are 0 at the first station and 1 from the second on,
\* for the runs in which the chord and the stiffness start at different stations.
ZeroRootTips ==
    {TipOf(0..MaxX, [i \in 1..(MaxX + 1) |-> IF i = 1 THEN 0 ELSE 1], FALSE)}

\* The raw value of 1.0 for the tips with signals far below 1.0: their raw
\* values 1 and 2 are 2^-24 and 2^-23 (about 6e-8 and 1.2e-7), below the
\* 1e-6 of line 96.  A power of two, so that binary64 computes with these
\* signals exactly as it does with 1 and 2.
TinyUnit == 2 ^ 24

\* Tips with three stations whose signals are 0, 2^-24 or 2^-23.
TinyTips ==
    {[TipOf({0, 1, MaxX}, v, FALSE) EXCEPT !.unit = TinyUnit] : v \in [1..3 -> YVals]}

\* Tips with three stations 1e-12 apart, at -2e-12, -1e-12 and 0.0: the interval
\* between the outer two is longer than 1e-12 and its midpoint is 1e-12
\* from both ends.
NarrowTips ==
    {[TipOf({0, 1, 2}, v, m) EXCEPT !.STA = << 0 - 2 * EPS, 0 - EPS, 0 >>] :
       v \in [1..3 -> YVals], m \in BOOLEAN}

Inputs ==
    (Tips \X {NoAero}) \cup (FlatTips \X Aeros) \cup (ZeroRootTips \X Aeros)
      \cup (TinyTips \X {NoAero}) \cup (NarrowTips \X {NoAero})

RECURSIVE MinOf(_)
MinOf(c) == IF Len(c) = 1 THEN Head(c) ELSE Min2(Head(c), MinOf(Tail(c)))

\* No tracked signal touches zero.
AwayFromZero(tip, aero) ==
    /\ Len(tip.STA) > 0 => MinOf(tip.EA \o tip.EJY \o tip.EJZ \o tip.GJ) >= 1
    /\ HasChord(aero) => MinOf(aero.Chord) >= 1

\* Where a signal has a kink at zero the relative midpoint error does not
\* shrink with the interval, and refinement bisects until the cap is reached
\* or until the midpoint of the interval with the kink is within 1e-12 of its
\* ends, 38 halvings below the grid for the default cap: then the loop of
\* lines 285-303 runs on without a change.  Grid positions cannot follow the
\* halvings that far, so over the grid stations such inputs are explored
\* with the caps 1..MaxCap or with a minimum segment length; the stations
\* 1e-12 apart are explored with every configuration, and there the loop
\* meets that interval in its first sweep.
Admissible(tip, aero, cfg) ==
    \/ cfg.max_elems <= MaxCap
    \/ ~IsNone(cfg.min_dr)
    \/ AwayFromZero(tip, aero)
    \/ tip \in NarrowTips

\* ------------------------------------------------------------- state
VARIABLES
    tip, aero, cfg,   \* the arguments of auto_select_sections
    pc,               \* the step the call has reached
    r0,               \* r0 (the start used)
    sections,         \* sections
    reasons,          \* reasons
    rkeys,            \* the keys of reasons in the order the dict holds them
    warnings,         \* warnings
    sweeps,           \* passes of the refinement loop so far, up to MaxSweeps
    report,           \* the SectionReport returned
    error,            \* the exception the call ended with, "" if none
    gsecs,            \* build_grid: the argument sections
    nodes,            \* build_grid: nodes
    elements,         \* build_grid: elements
    eval_points,      \* build_grid: eval_points
    grid,             \* build_grid: the BladeGrid returned
    atip, aaero,      \* attach_interpolators: the arguments tip and aero
    cx, cfmap,        \* the arguments x and field_map of _make_interp_closure (x and y of _interp1)
    closure,          \* the closure returned: the sorted x, fmap, x_min and x_max it holds
    query,            \* the last call of the closure (of _interp1): field_name and xq
    value,            \* what that call returned
    rows,             \* load_tip, load_aero: the numeric rows (x, y) read from the file
    loaded,           \* the TipData or AeroData returned: its x and one of its columns
    wcall,            \* write_refs, write_beam_file: the call made
    emitted           \* the y offsets written to the file, in file order

\* The state of auto_select_sections.
selVars == << tip, aero, cfg, r0, sections, reasons, rkeys, warnings, sweeps, report >>

\* The state of build_grid and attach_interpolators.
gridVars == << gsecs, nodes, elements, eval_points, grid, atip, aaero >>

\* The state of _make_interp_closure, of the closure it returns and of _interp1.
closVars == << cx, cfmap, closure, query, value >>

\* The state of load_tip and load_aero.
loadVars == << rows, loaded >>

\* The state of write_refs and write_beam_file.
writeVars == << wcall, emitted >>

\* The state of the components other than auto_select_sections.
compVars == << gridVars, closVars, loadVars, writeVars >>

\* The state of the components other than build_grid.
offGrid == << selVars, closVars, loadVars, writeVars >>

\* The state of the components other than the interpolation closure.
offClos == << selVars, gridVars, loadVars, writeVars >>

\* The state of the components other than the loaders.
offLoad == << selVars, gridVars, closVars, writeVars >>

\* The state of the components other than the writers.
offWrite == << selVars, gridVars, closVars, loadVars >>

vars == << selVars, pc, error, compVars >>

NoReport == MakeReport(<< >>, << >>, 0, << >>)

\* No BladeGrid yet.
NoGrid == << >>

\* No closure yet.
NoClosure == << >>

\* Before the call: no arguments yet.
Init ==
    /\ tip = TipOf({}, << >>, FALSE)
    /\ aero = NoAero
    /\ cfg = DefaultCfg
    /\ pc = "idle"
    /\ r0 = 0
    /\ sections = << >>
    /\ reasons = << >>
    /\ rkeys = << >>
    /\ warnings = << >>
    /\ sweeps = 0
    /\ report = NoReport
    /\ error = ""
    /\ gsecs = None
    /\ nodes = << >>
    /\ elements = << >>
    /\ eval_points = << >>
    /\ grid = NoGrid
    /\ atip = None
    /\ aaero = None
    /\ cx = << >>
    /\ cfmap = << >>
    /\ closure = NoClosure
    /\ query = << >>
    /\ value = None
    /\ rows = << >>
    /\ loaded = << >>
    /\ wcall = << >>
    /\ emitted = << >>

St == [sections |-> sections, reasons |-> reasons, warnings |-> warnings, again |-> TRUE]

\* The call auto_select_sections(t, a, c) up to line 242: the domain, the
\* start and the hard constraints.  With no station r_tip[0] raises IndexError.
Call(t, a, c) ==
    /\ pc = "idle"
    /\ tip' = t
    /\ aero' = a
    /\ cfg' = c
    /\ IF Len(t.STA) = 0
       THEN /\ pc' = "raised"
            /\ error' = "IndexError"
            /\ UNCHANGED << r0, sections, reasons, rkeys >>
       ELSE \E start \in {StartUsed(t, a, c)} :
            \E s2 \in {HardAppended(t, a, c, start)} :
                /\ r0' = start
                /\ sections' = EnsureSortedUnique(s2.sections)
                /\ reasons' = s2.reasons
                /\ rkeys' = KeysAdded(<< >>, s2.sections)
                /\ pc' = "max_dr"
                /\ error' = error
    /\ UNCHANGED << warnings, sweeps, report, compVars >>

Begin ==
    /\ pc = "idle"
    /\ \E inp \in Inputs : \E c \in Configs :
           Admissible(inp[1], inp[2], c) /\ Call(inp[1], inp[2], c)

\* lines 244-264: one pass of the max_dr loop, or its skip.
MaxDrStep ==
    /\ pc = "max_dr"
    /\ IF ~MaxDrActive(cfg)
       THEN pc' = "refine" /\ UNCHANGED << sections, reasons, rkeys >>
       ELSE \E new_pts \in {MaxDrPoints(1, sections, Val(cfg.max_dr))} :
            \E nx \in {MaxDrMerge(St, new_pts, cfg)} :
                /\ sections' = nx.sections
                /\ reasons' = nx.reasons
                /\ rkeys' = KeysAdded(rkeys, new_pts)
                /\ pc' = IF nx.again THEN "max_dr" ELSE "refine"
    /\ UNCHANGED << tip, aero, cfg, r0, warnings, sweeps, report, error, compVars >>

\* lines 283-303: one sweep of the refinement loop, or its exit.
RefineStep ==
    /\ pc = "refine"
    /\ IF ~RefineEnter(St, cfg)
       THEN pc' = "min_dr" /\ UNCHANGED << sections, reasons, rkeys, sweeps >>
       ELSE \E new_pts \in {RefinePoints(1, sections, tip, aero, cfg)} :
            \E nx \in {RefineMerge(St, new_pts, cfg)} :
                /\ sections' = nx.sections
                /\ reasons' = nx.reasons
                /\ rkeys' = KeysAdded(rkeys, [i \in 1..Len(new_pts) |-> new_pts[i][1]])
                /\ sweeps' = Min2(sweeps + 1, MaxSweeps)
                /\ pc' = IF nx.again THEN "refine" ELSE "min_dr"
    /\ UNCHANGED << tip, aero, cfg, r0, warnings, report, error, compVars >>

\* lines 305-327: one pass of the min_dr loop, or its skip; leaving it runs
\* the deduplication of line 327.
MinDrStep ==
    /\ pc = "min_dr"
    /\ IF ~MinDrActive(cfg)
       THEN /\ pc' = "cap"
            /\ sections' = EnsureSortedUnique(sections)
            /\ UNCHANGED << reasons, rkeys, warnings >>
       ELSE \E nx \in {MinDrIter(St, cfg)} :
                /\ sections' = IF nx.again THEN nx.sections
                               ELSE EnsureSortedUnique(nx.sections)
                /\ reasons' = nx.reasons
                /\ rkeys' = SelectSeq(rkeys, LAMBDA k : k \in DOMAIN nx.reasons)
                /\ warnings' = nx.warnings
                /\ pc' = IF nx.again THEN "min_dr" ELSE "cap"
    /\ UNCHANGED << tip, aero, cfg, r0, sweeps, report, error, compVars >>

\* lines 328-337: one test of the cap loop and, if it passes, its body.
CapStep ==
    /\ pc = "cap"
    /\ \E nx \in {CapIter(St, cfg)} :
           /\ sections' = nx.sections
           /\ reasons' = nx.reasons
           /\ rkeys' = SelectSeq(rkeys, LAMBDA k : k \in DOMAIN nx.reasons)
           /\ warnings' = nx.warnings
           /\ pc' = IF nx.again THEN "cap" ELSE "report"
    /\ UNCHANGED << tip, aero, cfg, r0, sweeps, report, error, compVars >>

\* lines 339-357: the last deduplication and the report.
Finish ==
    /\ pc = "report"
    /\ sections' = EnsureSortedUnique(sections)
    /\ report' = MakeReport(EnsureSortedUnique(sections), reasons, r0, warnings)
    /\ pc' = "done"
    /\ UNCHANGED << tip, aero, cfg, r0, reasons, rkeys, warnings, sweeps, error, compVars >>

Next == Begin \/ MaxDrStep \/ RefineStep \/ MinDrStep \/ CapStep \/ Finish

Spec == Init /\ [][Next]_vars

\* The steps of a call that has begun.
Step == MaxDrStep \/ RefineStep \/ MinDrStep \/ CapStep \/ Finish

\* The call is one sequential computation: once begun, a step that can run
\* does run.  Whether a call is made at all is the caller's choice.
FairSpec == Spec /\ WF_vars(Step)

\* ------------------------------------------------------------- claims
\* _strictly_increasing letting equal neighbours pass: xs[i+1] - xs[i] >= 0.0
StrictlyIncreasingOrEqual(xs) == \A i \in 1..(Len(xs) - 1) : xs[i + 1] - xs[i] >= 0

\* grid.py _strictly_increasing: xs[i+1] - xs[i] > 0.0 for every i
StrictlyIncreasing(xs) == \A i \in 1..(Len(xs) - 1) : xs[i + 1] - xs[i] > 0

\* build_grid raises nothing (lines 55-59 of grid.py)
BuildGridAccepts(secs) == Len(secs) >= 2 /\ StrictlyIncreasing(secs)

InList(s, r) == \E i \in 1..Len(s) : s[i] = r

\* the tags recorded for r
TagsAt(rs, r) == IF r \in DOMAIN rs THEN rs[r] ELSE << >>

HasKind(rs, r, kind) == \E i \in 1..Len(TagsAt(rs, r)) : TagsAt(rs, r)[i].kind = kind

HasTag(rs, r, tag) == \E i \in 1..Len(TagsAt(rs, r)) : TagsAt(rs, r)[i] = tag

Returned == pc = "done"

rmaxOf(t) == t.STA[Len(t.STA)]

\* C1: for every input with at least 2 structural samples and every
\* configuration, the returned section list is strictly increasing and has
\* length >= 2, so build_grid accepts it.
C1_SectionsAccepted ==
    (Returned /\ Len(tip.STA) >= 2) => BuildGridAccepts(report.sections)

\* C2: in every state after the hard constraints, and so in every output,
\* the first section is the start position reported as r_start_used and is
\* tagged START, and the last section is the last structural station and is
\* tagged END.
C2_StartEndKept ==
    pc \in {"max_dr", "refine", "min_dr", "cap", "report", "done"} =>
        /\ Len(sections) >= 1
        /\ sections[1] = r0
        /\ HasKind(reasons, sections[1], "START")
        /\ sections[Len(sections)] = rmaxOf(tip)
        /\ HasKind(reasons, sections[Len(sections)], "END")
        /\ Returned => report.r_start_used = report.sections[1]

\* The reasons as the hard-constraint detection leaves them (lines 205-242).
HardReasons == HardConstraints(tip, aero, cfg, StartUsed(tip, aero, cfg)).reasons

\* C3: every position given a JUMP:<signal> or VERTEX:Chord tag by the
\* hard-constraint detection is in the returned section list, and still
\* carries that tag in the report.
C3_HardTagsKept ==
    Returned =>
        \A r \in DOMAIN HardReasons :
            \A i \in 1..Len(HardReasons[r]) :
                HardReasons[r][i].kind \in {"JUMP", "VERTEX"} =>
                    InList(report.sections, r) /\ HasTag(report.reasons, r, HardReasons[r][i])

\* The interior sections of the report all carry a JUMP or a VERTEX tag.
InteriorProtected ==
    \A i \in 2..(Len(report.sections) - 1) :
        HasKind(report.reasons, report.sections[i], "JUMP")
          \/ HasKind(report.reasons, report.sections[i], "VERTEX")

\* The element count is within the cap, or only protected interior sections
\* are left and the report carries the cap warning.
CapRespected ==
    \/ report.elems <= cfg.max_elems
    \/ InteriorProtected /\ InList(report.warnings, CapWarning)

\* The positions the detection of lines 218-235 tags JUMP.
JumpPositions == {r \in DOMAIN HardReasons : HasKind(HardReasons, r, "JUMP")}

\* All jump positions, START and END are returned, with the cap warning.
JumpsAllKept ==
    /\ \A r \in JumpPositions : InList(report.sections, r)
    /\ HasKind(report.reasons, report.sections[1], "START")
    /\ HasKind(report.reasons, report.sections[Len(report.sections)], "END")
    /\ InList(report.warnings, CapWarning)

\* C4 as stated: on return the cap is respected (or only protected sections
\* are left, with the warning), and with max_elems = 2 and three distinct
\* jump positions all three are kept with START and END and the warning.
C4_CapAsStated ==
    Returned /\ Len(tip.STA) >= 1 =>
        /\ CapRespected
        /\ (cfg.max_elems = 2 /\ Cardinality(JumpPositions) = 3) => JumpsAllKept

\* C4 amended: the same, the three jump positions not including both the
\* start position and the domain maximum (when they do, START, END and the
\* three jumps are three sections, two elements, and no warning is due).
C4_CapRespected ==
    Returned /\ Len(tip.STA) >= 1 =>
        /\ CapRespected
        /\ (/\ cfg.max_elems = 2
            /\ Cardinality(JumpPositions) = 3
            /\ ~(r0 \in JumpPositions /\ rmaxOf(tip) \in JumpPositions)) => JumpsAllKept

\* Three jump positions under the cap 2, kept with the warning.
C4_Witness ==
    /\ Returned
    /\ cfg.max_elems = 2
    /\ Cardinality(JumpPositions) = 3
    /\ JumpsAllKept
    /\ report.elems = 3

\* Every tracked signal's midpoint error on [a, b] is within err_tol.
WithinTol(a, b) ==
    /\ \A k \in 1..4 : ~FracGt(MidError(tip.STA, StructSignals(tip)[k][2], a, b), cfg.err_tol)
    /\ HasChord(aero) => ~FracGt(MidError(aero.Radial, aero.Chord, a, b), cfg.err_tol)

\* Every returned interval longer than min_dr (every one if min_dr is unset)
\* is within err_tol.
LongIntervalsWithinTol ==
    \A i \in 1..(Len(report.sections) - 1) :
        (IsNone(cfg.min_dr) \/ report.sections[i + 1] - report.sections[i] > Val(cfg.min_dr))
            => WithinTol(report.sections[i], report.sections[i + 1])

\* Every returned interval longer than min_dr + 1e-12, the length below which
\* line 291 skips an interval (every interval if min_dr is unset), is within
\* err_tol.
ClearlyLongIntervalsWithinTol ==
    \A i \in 1..(Len(report.sections) - 1) :
        (IsNone(cfg.min_dr)
           \/ report.sections[i + 1] - report.sections[i] > Val(cfg.min_dr) + EPS)
            => WithinTol(report.sections[i], report.sections[i + 1])

MergeWarned == \E i \in 1..Len(report.warnings) : report.warnings[i].kind = MinDrWarning(0).kind

\* C5 as stated: when the call returns with fewer than max_elems elements,
\* every returned interval longer than min_dr has a relative midpoint error
\* of at most err_tol for every tracked signal.
C5_ErrorAsStated ==
    (Returned /\ report.elems < cfg.max_elems) => LongIntervalsWithinTol

\* C5 amended: the same for the intervals longer than min_dr + 1e-12, when
\* the min_dr merge removed no section (the report carries no min_dr-merge
\* warning).
C5_ErrorWithinTol ==
    (Returned /\ report.elems < cfg.max_elems /\ ~MergeWarned)
        => ClearlyLongIntervalsWithinTol

\* A run below the cap whose refinement inserted a section, min_dr being set.
C5_Witness ==
    /\ Returned
    /\ report.elems < cfg.max_elems
    /\ ~MergeWarned
    /\ ~IsNone(cfg.min_dr)
    /\ \E r \in DOMAIN report.reasons : InList(report.sections, r) /\ HasKind(report.reasons, r, "ERR")

\* |y1 - y0| / max(|y0|, |y1|, eps) >= tol, for integer samples and tol > 0
RelChangeGe(y0, y1, tol) ==
    Max2(Abs(y0), Abs(y1)) > 0 /\ Abs(y1 - y0) * tol[2] >= tol[1] * Max2(Abs(y0), Abs(y1))

\* The returned sections contain x[i], tagged JUMP:<name>, exactly when the
\* samples i-1 and i of the series (x, y) change by jump_tol or more.
JumpIff(name, x, y) ==
    \A i \in 2..Len(x) :
        (report.r_start_used <= x[i] /\ x[i] <= rmaxOf(tip)) =>
            ((InList(report.sections, x[i]) /\ HasTag(report.reasons, x[i], Tag("JUMP", name)))
                <=> RelChangeGe(y[i - 1], y[i], cfg.jump_tol))

\* C6: for each tracked signal and each pair of consecutive raw samples
\* (x[i-1], x[i]) with start <= x[i] <= domain maximum, the returned sections
\* contain x[i] tagged JUMP:<signal> if and only if the relative change is at
\* least jump_tol.
C6_JumpIffChange ==
    Returned =>
        /\ \A k \in 1..4 : JumpIff(StructSignals(tip)[k][1], tip.STA, StructSignals(tip)[k][2])
        /\ HasChord(aero) => JumpIff("Chord", aero.Radial, aero.Chord)

ConstantSeq(y) == \A i \in 1..Len(y) : y[i] = y[1]

ConstantTip == \A k \in 1..4 : ConstantSeq(StructSignals(tip)[k][2])

\* C7: constant structural signals, no aero data and the default
\* configuration give exactly [domain_min, domain_max], tagged START and END
\* only, and no warnings.
C7_ConstantSignal ==
    (Returned /\ Len(tip.STA) >= 2 /\ ConstantTip /\ ~aero.present /\ cfg = DefaultCfg) =>
        /\ report.sections = << tip.STA[1], rmaxOf(tip) >>
        /\ DOMAIN report.reasons = {tip.STA[1], rmaxOf(tip)}
        /\ report.reasons[tip.STA[1]] = << TagSTART >>
        /\ report.reasons[rmaxOf(tip)] = << TagEND >>
        /\ report.warnings = << >>

\* A constant tip with interior stations, returned under the defaults.
C7_Witness ==
    /\ Returned
    /\ Len(tip.STA) >= 3
    /\ ConstantTip
    /\ tip.EA[1] > 0
    /\ ~aero.present
    /\ cfg = DefaultCfg
    /\ report.elems = 1

\* The number of sections the call returns when err_tol is t instead.
CountWith(t) == Len(Select(tip, aero, [cfg EXCEPT !.err_tol = t]).sections)

\* No looser tolerance of ErrTols gives more sections than this run returned.
LooserNoMore ==
    \A t \in ErrTols : FracGe(t, cfg.err_tol) => CountWith(t) <= Len(report.sections)

\* C8 as stated: for a fixed input and fixed other fields, a looser err_tol
\* never returns more sections.
C8_LooserAsStated == (Returned /\ Len(tip.STA) >= 1) => LooserNoMore

\* C8 amended: the same, when min_dr is unset.
C8_LooserNoMore == (Returned /\ Len(tip.STA) >= 1 /\ IsNone(cfg.min_dr)) => LooserNoMore

\* A run without min_dr for which the looser tolerance returns fewer sections.
C8_Witness ==
    /\ Returned
    /\ IsNone(cfg.min_dr)
    /\ cfg.err_tol = DefaultErrTol
    /\ \E t \in ErrTols : CountWith(t) < Len(report.sections)

\* C9: with fewer than 2 structural samples the call ends with an
\* InsufficientDomainError and returns nothing.
C9_InsufficientDomain ==
    (Len(tip.STA) < 2 /\ pc \in {"done", "raised"}) =>
        (pc = "raised" /\ error = "InsufficientDomainError")

\* A pass of a loop after which the same loop runs on changes the number of
\* sections: up in the max_dr and refinement loops, down in the min_dr and cap
\* loops.
LoopProgress ==
    /\ (pc \in {"max_dr", "refine"} /\ pc' = pc) => Len(sections') > Len(sections)
    /\ (pc \in {"min_dr", "cap"} /\ pc' = pc) => Len(sections') < Len(sections)

\* C10: with at least 2 structural samples every loop pass that continues
\* changes the section count, the refinement loop makes at most max_elems
\* sweeps, and the call returns.
C10_Terminates ==
    /\ [][Len(tip.STA) >= 2 => LoopProgress]_vars
    /\ [](Len(tip.STA) >= 2 => sweeps <= cfg.max_elems)
    /\ (Len(tip.STA) >= 2) ~> Returned

\* The final list has an interval shorter than min_dr.
ShortIntervalLeft ==
    /\ ~IsNone(cfg.min_dr)
    /\ \E i \in 1..(Len(report.sections) - 1) :
           report.sections[i + 1] - report.sections[i] < Val(cfg.min_dr)

\* Some warning of the report is about a section interval: any warning other
\* than the cap warning is taken for one.
SubMinimumWarned ==
    \E i \in 1..Len(report.warnings) : report.warnings[i].kind # CapWarning.kind

\* C11: whenever min_dr is set and the final section list contains an
\* interval shorter than min_dr, the report's warnings contain a warning
\* recording that interval.
C11_ShortIntervalWarned ==
    (Returned /\ ShortIntervalLeft) => SubMinimumWarned

\* The tracked signals of the call in the order of err_any: << name, x, y >>.
Tracked ==
    [k \in 1..4 |-> << StructSignals(tip)[k][1], tip.STA, StructSignals(tip)[k][2] >>]
      \o (IF HasChord(aero) THEN << << "Chord", aero.Radial, aero.Chord >> >> ELSE << >>)

\* The signal k attains the largest midpoint error on [a, b].
AttainsMax(k, a, b) ==
    \A j \in 1..Len(Tracked) :
        FracGe(MidError(Tracked[k][2], Tracked[k][3], a, b),
               MidError(Tracked[j][2], Tracked[j][3], a, b))

\* The current interval i is longer than min_dr + slack and its largest
\* midpoint error exceeds err_tol.
Qualifies(i, slack) ==
    /\ IsNone(cfg.min_dr) \/ sections[i + 1] - sections[i] > Val(cfg.min_dr) + slack
    /\ ~WithinTol(sections[i], sections[i + 1])

\* A step of the refinement loop: no sweep unless the element count is below
\* max_elems; a sweep adds exactly the midpoints of the qualifying intervals,
\* all at once, each tagged ERR>tol:<a signal attaining the largest error>.
SweepBisects(slack) ==
    pc = "refine" =>
        IF ~(Len(sections) - 1 < cfg.max_elems) THEN sections' = sections
        ELSE LET hit == {i \in 1..(Len(sections) - 1) : Qualifies(i, slack)}
                 mid(i) == (sections[i] + sections[i + 1]) \div 2
             IN  /\ {sections'[k] : k \in 1..Len(sections')}
                      = {sections[k] : k \in 1..Len(sections)} \cup {mid(i) : i \in hit}
                 /\ \A i \in hit :
                        /\ sections[i] < mid(i) /\ mid(i) < sections[i + 1]
                        /\ \E k \in 1..Len(Tracked) :
                               /\ AttainsMax(k, sections[i], sections[i + 1])
                               /\ HasTag(reasons', mid(i), ErrTag(cfg.err_tol, Tracked[k][1]))

\* C20 as stated: in each refinement sweep (run only while the element count
\* is below max_elems) exactly the intervals longer than min_dr whose largest
\* midpoint error exceeds err_tol are bisected at their midpoints, all
\* together, each new section tagged ERR>tol:<signal> for a signal attaining
\* that error; intervals at or below min_dr are never bisected.
C20_SweepAsStated == [][SweepBisects(0)]_vars

\* --------------------------------------------------------- build_grid
\* Numbers.  A section handed to build_grid is an integer code k standing
\* for the binary64 value 2 + k * 2^-52.  Below 2.0 consecutive binary64
\* values are 2^-52 apart and from 2.0 on they are 2^-51 apart, so the
\* binary64 values are the codes k <= 0 and the even codes k > 0.  The
\* arithmetic of build_grid is modelled with its binary64 rounding.

\* Sections carry the codes -MaxCode..MaxCode.
MaxCode == 8
\* A section list has at most MaxSecs entries.
MaxSecs == 3

\* k is the code of a binary64 value.
Representable(k) == k <= 0 \/ k % 2 = 0

\* The multiple of step nearest to n/q (q > 0), a tie going to the even
\* multiple: round-to-nearest-even.
RoundTo(n, q, step) ==
    LET t == q * step
        lo == (n \div t) * step
        r2 == 2 * (n - lo * q)
    IN  IF r2 < t THEN lo
        ELSE IF r2 > t THEN lo + step
        ELSE IF (lo \div step) % 2 = 0 THEN lo ELSE lo + step

\* The binary64 value nearest to the code n/q.
Fl(n, q) == RoundTo(n, q, IF n < 0 THEN 1 ELSE 2)

\* 0.5 * inv_sqrt3 = 0.5 / sqrt(3) = 0.28867513..., as a fraction
HalfInvSqrt3 == << 2911, 10084 >>

\* xm = 0.5 * (x1 + x2) returning x1, as if the element had no interior.
GridMidLeft(x1, x2) == x1

\* xm = 0.5 * (x1 + x2): the sum is rounded, the halving is exact.
GridMid(x1, x2) == Fl(x1 + x2, 2)

\* GaussPoint with the offset taken on the side of x2 for both points.
GaussPointOneSided(xm, x1, x2, sign) ==
    Fl(xm * HalfInvSqrt3[2] + HalfInvSqrt3[1] * (x2 - x1), HalfInvSqrt3[2])

\* xm + sign * 0.5 * inv_sqrt3 * (x2 - x1): the difference is exact, the
\* product is rounded far below the spacing of xm, the sum is rounded.
GaussPoint(xm, x1, x2, sign) ==
    Fl(xm * HalfInvSqrt3[2] + sign * HalfInvSqrt3[1] * (x2 - x1), HalfInvSqrt3[2])

\* The arguments explored: None and every list of at most MaxSecs codes of
\* binary64 values, in any order.
GridArgs ==
    LET codes == {k \in (0 - MaxCode)..MaxCode : Representable(k)}
    IN  {None} \cup {Some(s) : s \in UNION {[1..n -> codes] : n \in 0..MaxSecs}}

\* build_grid(a) up to line 66: the two checks, then the empty lists.
GridCall(a) ==
    /\ pc = "idle"
    /\ gsecs' = a
    /\ IF IsNone(a) \/ Len(Val(a)) < 2
       THEN /\ pc' = "raised"
            /\ error' = "ValueError"
            /\ UNCHANGED << nodes, elements, eval_points >>
       ELSE IF ~StrictlyIncreasing(Val(a))
       THEN /\ pc' = "raised"
            /\ error' = "ValueError"
            /\ UNCHANGED << nodes, elements, eval_points >>
       ELSE /\ pc' = "grid_loop"
            /\ nodes' = << Val(a)[1] >>
            /\ elements' = << >>
            /\ eval_points' = << >>
            /\ error' = error
    /\ UNCHANGED << offGrid, grid, atip, aaero >>

GridBegin == pc = "idle" /\ \E a \in GridArgs : GridCall(a)

\* lines 68-83: one iteration of the loop over the adjacent sections.
GridElement ==
    /\ pc = "grid_loop"
    /\ Len(elements) < Len(Val(gsecs)) - 1
    /\ LET x1 == Val(gsecs)[Len(elements) + 1]
           x2 == Val(gsecs)[Len(elements) + 2]
           xm == GridMid(x1, x2)
       IN  /\ nodes' = nodes \o << xm, x2 >>
           /\ elements' = Append(elements, << x1, xm, x2 >>)
           /\ eval_points' =
                  Append(eval_points, << GaussPoint(xm, x1, x2, -1), GaussPoint(xm, x1, x2, 1) >>)
    /\ UNCHANGED << offGrid, pc, error, gsecs, grid, atip, aaero >>

\* lines 85-92: the BladeGrid, without interpolators.
GridReturn ==
    /\ pc = "grid_loop"
    /\ Len(elements) = Len(Val(gsecs)) - 1
    /\ grid' = [sections |-> Val(gsecs), nodes |-> nodes, elements |-> elements,
                eval_points |-> eval_points, interp_tip |-> None, interp_aero |-> None]
    /\ pc' = "grid_done"
    /\ UNCHANGED << offGrid, error, gsecs, nodes, elements, eval_points, atip, aaero >>

GridReturned == pc = "grid_done"

\* The end-mid-end layout of the returned grid over its K sections: K-1
\* elements, 2K-1 nodes, nodes[2i] = s[i], nodes[2i+1] = 0.5*(s[i]+s[i+1]),
\* elements[i] = (s[i], mid, s[i+1]), consecutive elements sharing a
\* section, the sections those given, no interpolator.
GridLayout ==
    LET s == grid.sections
        K == Len(s)
    IN  /\ s = Val(gsecs)
        /\ Len(grid.elements) = K - 1
        /\ Len(grid.nodes) = 2 * K - 1
        /\ \A i \in 1..K : grid.nodes[2 * i - 1] = s[i]
        /\ \A i \in 1..(K - 1) :
               /\ grid.nodes[2 * i] = GridMid(s[i], s[i + 1])
               /\ grid.elements[i] = << s[i], GridMid(s[i], s[i + 1]), s[i + 1] >>
        /\ \A i \in 1..(K - 2) : grid.elements[i][3] = grid.elements[i + 1][1]
        /\ grid.interp_tip = None
        /\ grid.interp_aero = None

NonDecreasing(xs) == \A i \in 1..(Len(xs) - 1) : xs[i] <= xs[i + 1]

\* Some binary64 value lies strictly between every two adjacent sections.
SectionsApart(s) ==
    \A i \in 1..(Len(s) - 1) : \E k \in (s[i] + 1)..(s[i + 1] - 1) : Representable(k)

\* C12 as stated: build_grid on a strictly increasing list of K >= 2
\* sections returns the end-mid-end layout, and its nodes are strictly
\* increasing.
C12_GridAsStated == GridReturned => (GridLayout /\ StrictlyIncreasing(grid.nodes))

\* C12 amended: build_grid on a strictly increasing list of K >= 2 sections
\* returns the end-mid-end layout; its nodes never decrease, and they are
\* strictly increasing when a binary64 value lies between every two
\* adjacent sections.
C12_GridLayout ==
    GridReturned =>
        /\ GridLayout
        /\ NonDecreasing(grid.nodes)
        /\ SectionsApart(grid.sections) => StrictlyIncreasing(grid.nodes)

\* A grid over three sections on both sides of 2.0, a binary64 value
\* between every two of them.
C12_Witness ==
    /\ GridReturned
    /\ Len(grid.sections) = 3
    /\ grid.sections[1] < 0
    /\ grid.sections[3] > 0
    /\ SectionsApart(grid.sections)

\* The largest gap between adjacent binary64 values in [x1, x2].
LargestGap(x1, x2) == IF x2 > 0 THEN 2 ELSE 1

\* Element i carries the pair (mid - (0.5/sqrt(3))(b - a), mid + (0.5/sqrt(3))(b - a)).
GaussPairAt(i) ==
    LET e == grid.elements[i]
    IN  grid.eval_points[i] = << GaussPoint(e[2], e[1], e[3], -1), GaussPoint(e[2], e[1], e[3], 1) >>

\* The pair of element i lies as far below mid as above it, give or take slack.
SymmetricAt(i, slack) ==
    LET e == grid.elements[i]
        p == grid.eval_points[i]
    IN  Abs((e[2] - p[1]) - (p[2] - e[2])) <= slack

\* a < ev1 < mid < ev2 < b in element i
InsideAt(i) ==
    LET e == grid.elements[i]
        p == grid.eval_points[i]
    IN  e[1] < p[1] /\ p[1] < e[2] /\ e[2] < p[2] /\ p[2] < e[3]

\* Element i is at least n of the largest binary64 gaps in it wide.
WideAt(i, n) ==
    LET e == grid.elements[i]
    IN  e[3] - e[1] >= n * LargestGap(e[1], e[3])

\* C13 as stated: the grid carries one pair of evaluation points per
\* element, in element order, the pair being mid -+ (0.5/sqrt(3))(b - a),
\* symmetric about mid and strictly inside the element.
C13_GaussAsStated ==
    GridReturned =>
        /\ Len(grid.eval_points) = Len(grid.elements)
        /\ \A i \in 1..Len(grid.elements) : GaussPairAt(i) /\ SymmetricAt(i, 0) /\ InsideAt(i)

\* C13 amended: the grid carries one pair of evaluation points per element,
\* in element order, the pair being mid -+ (0.5/sqrt(3))(b - a) as computed
\* in binary64, symmetric about mid to within the largest binary64 gap in
\* the element, and strictly inside the element when it is at least 5
\* such gaps wide.
C13_GaussPoints ==
    GridReturned =>
        /\ Len(grid.eval_points) = Len(grid.elements)
        /\ \A i \in 1..Len(grid.elements) :
               /\ GaussPairAt(i)
               /\ SymmetricAt(i, LargestGap(grid.elements[i][1], grid.elements[i][3]))
               /\ WideAt(i, 5) => InsideAt(i)

\* A grid of two elements: one wide enough across 2.0, with its pair inside
\* it but not symmetric, and one too narrow for its pair.
C13_Witness ==
    /\ GridReturned
    /\ Len(grid.elements) = 2
    /\ \E i \in 1..2 :
           /\ WideAt(i, 5)
           /\ grid.elements[i][1] < 0
           /\ grid.elements[i][3] > 0
           /\ InsideAt(i)
           /\ ~SymmetricAt(i, 0)
    /\ \E i \in 1..2 : ~WideAt(i, 5) /\ ~InsideAt(i)

\* The argument is missing, has fewer than 2 entries, or has an adjacent
\* difference <= 0 (a duplicate or a descent).
BadSections(a) ==
    \/ IsNone(a)
    \/ Len(Val(a)) < 2
    \/ \E i \in 1..(Len(Val(a)) - 1) : Val(a)[i + 1] - Val(a)[i] <= 0

\* build_grid has been called.
GridCalled == pc # "idle"

\* C14 as stated: build_grid fails with InvalidSectionsError exactly when
\* its argument is missing, has fewer than 2 entries, or is not strictly
\* increasing; every list of length >= 2 with all adjacent differences > 0
\* is accepted.
C14_RejectsAsStated ==
    GridCalled => ((pc = "raised" /\ error = "InvalidSectionsError") <=> BadSections(gsecs))

\* C14 amended: build_grid fails, with ValueError, exactly when its argument
\* is missing, has fewer than 2 entries, or is not strictly increasing;
\* every list of length >= 2 with all adjacent differences > 0 is accepted.
C14_RejectsBadSections ==
    GridCalled =>
        /\ (pc = "raised" /\ error = "ValueError") <=> BadSections(gsecs)
        /\ pc \in {"grid_loop", "grid_done"} => error = ""

\* A list of three sections rejected for a duplicate alone.
C14_Witness ==
    /\ pc = "raised"
    /\ error = "ValueError"
    /\ ~IsNone(gsecs)
    /\ Len(Val(gsecs)) = 3
    /\ Val(gsecs)[1] < Val(gsecs)[2]
    /\ Val(gsecs)[2] = Val(gsecs)[3]

\* ----------------------------------------------- interpolation closure
\* Numbers.  Sample positions and queries are position codes (Unit is 1.0),
\* sample values are small integers, and a returned value is an integer
\* count of 1/YScale computed exactly: the binary64 value the code returns
\* is that value rounded.

\* A series has at most MaxPts samples.
MaxPts == 3

\* Sample positions 0.0, 1.0, 2.0 and queries -0.5, 0.0, 0.5, ..., 2.5.
SamplePositions == {Unit * k : k \in 0..2}
QueryPositions == {(Unit \div 2) * k : k \in (0 - 1)..5}

SeqsUpTo(n, S) == UNION {[1..k -> S] : k \in 0..n}

\* field_map: EA, and GJ of the same length or one sample short.
FieldMaps ==
    UNION {{[EA |-> ea, GJ |-> gj] :
              gj \in {Reverse(ea), IF ea = << >> THEN << >> ELSE Tail(ea)}} :
           ea \in SeqsUpTo(MaxPts, YVals)}

\* np.argsort(x): an index order that sorts x.  The order of equal entries is
\* not specified by the default sort: every sorting order is possible.
ArgSorts(x) ==
    {o \in [1..Len(x) -> 1..Len(x)] :
       /\ \A i, j \in 1..Len(x) : i # j => o[i] # o[j]
       /\ \A i \in 1..(Len(x) - 1) : x[o[i]] <= x[o[i + 1]]}

\* arr[order]
Take(arr, order) == [i \in 1..Len(order) |-> arr[order[i]]]

\* np.interp(xq, xp, fp) for xp[1] < xq < xp[N]: the segment j is the last
\* one with xp[j] <= xq, and xp[j] = xq returns fp[j].
NpInterp(xq, xp, fp) ==
    LET j == CHOOSE k \in 1..(Len(xp) - 1) : xp[k] <= xq /\ xq < xp[k + 1]
    IN  YScale * fp[j]
          + Div((fp[j + 1] - fp[j]) * YScale * (xq - xp[j]), xp[j + 1] - xp[j])

\* lines 105-116: what the closure holds for the index order chosen.
Bind(x, fm, order) ==
    [x |-> Take(x, order),
     fmap |-> [k \in DOMAIN fm |-> Take(fm[k], order)],
     x_min |-> x[order[1]],
     x_max |-> x[order[Len(x)]]]

\* interp(field_name, xq) of the closure c, for a bound field (lines 121-127)
ClosureInterp(c, field_name, xq) ==
    IF xq <= c.x_min THEN YScale * c.fmap[field_name][1]
    ELSE IF xq >= c.x_max THEN YScale * c.fmap[field_name][Len(c.x)]
    ELSE NpInterp(xq, c.x, c.fmap[field_name])

\* Some field of fm has not the length of x.
Mismatched(x, fm) == \E k \in DOMAIN fm : Len(fm[k]) # Len(x)

\* _make_interp_closure(x, fm)
ClosureCall(x, fm) ==
    /\ pc = "idle"
    /\ cx' = x
    /\ cfmap' = fm
    /\ IF Len(x) = 0 \/ Mismatched(x, fm)
       THEN /\ pc' = "raised"
            /\ error' = "ValueError"
            /\ closure' = closure
       ELSE /\ \E order \in ArgSorts(x) : closure' = Bind(x, fm, order)
            /\ pc' = "closure"
            /\ error' = error
    /\ UNCHANGED << offClos, query, value >>

ClosureBegin ==
    \E x \in SeqsUpTo(MaxPts, SamplePositions) : \E fm \in FieldMaps : ClosureCall(x, fm)

\* interp(field_name, xq), lines 118-127: KeyError for a field not bound.
ClosureQuery ==
    /\ pc = "closure"
    /\ \E f \in {"EA", "GJ", "Chord"} : \E xq \in QueryPositions :
           /\ query' = << f, xq >>
           /\ IF f \notin DOMAIN closure.fmap
              THEN value' = None /\ error' = "KeyError"
              ELSE value' = Some(ClosureInterp(closure, f, xq)) /\ error' = ""
    /\ UNCHANGED << offClos, pc, cx, cfmap, closure >>

\* _interp1(x, y, xi) of select_sections.py on a sorted series, as the
\* selector calls it on the loaded arrays.
Interp1Call ==
    /\ pc = "idle"
    /\ \E x \in SeqsUpTo(MaxPts, SamplePositions) : \E xi \in QueryPositions :
       \E y \in [1..Len(x) -> YVals] :
           /\ \A i \in 1..(Len(x) - 1) : x[i] <= x[i + 1]
           /\ cx' = x
           /\ cfmap' = [EA |-> y]
           /\ query' = << "EA", xi >>
           /\ value' = Some(Interp1(x, y, xi))
    /\ pc' = "interp1_done"
    /\ UNCHANGED << offClos, error, closure >>

ClosNext == ClosureBegin \/ ClosureQuery \/ Interp1Call

ClosSpec == Init /\ [][ClosNext]_vars

\* ------------------------------------------------ attach_interpolators
\* The keys of tip_field_map (lines 151-166).
TipFieldNames ==
    {"EA", "EJY", "EJZ", "GJ", "YNA", "ZNA", "YCT", "ZCT", "ROTAN_deg", "ROTAPI_deg",
     "dM", "dJX", "dJY", "dJZ", "YCG", "ZCG"}

\* aero_field_map (lines 172-181): Chord, and each optional column that is
\* not None.
AeroFieldMap(a) ==
    [k \in {"Chord"} \cup {n \in {"Twist", "Sweep", "Anhedral"} : ~IsNone(a[n])} |->
        IF k = "Chord" THEN a.Chord ELSE Val(a[k])]

\* The closures _make_interp_closure(x, fm) can return, one per sorting
\* order of x; none when it raises ValueError (lines 102-103, 112-113).
Closures(x, fm) ==
    IF Len(x) = 0 \/ Mismatched(x, fm) THEN {}
    ELSE {Bind(x, fm, order) : order \in ArgSorts(x)}

\* The station lists of the TipData and AeroData attached: none, two
\* ascending, two descending, two equal.
AttachStations == {<< >>, << 0, Unit >>, << Unit, 0 >>, << Unit, Unit >>}

\* The TipData attached, over the stations x[1]: EA, EJY, EJZ and GJ carry
\* x[2], constant or rising, the other fields its mirror image, and ZCG is
\* one sample short when x[3] is set.
AttachTips ==
    {[k \in TipFieldNames \cup {"STA"} |->
         IF k = "STA" THEN x[1]
         ELSE IF k \in {"EA", "EJY", "EJZ", "GJ"} THEN x[2]
         ELSE IF k = "ZCG" /\ x[3] /\ x[2] # << >> THEN Tail(x[2])
         ELSE Reverse(x[2])] :
       x \in UNION {{xs} \X {[i \in 1..Len(xs) |-> 1], [i \in 1..Len(xs) |-> i]} \X BOOLEAN :
                      xs \in AttachStations}}

\* The AeroData attached: a rising Chord over the stations x, no Twist or a
\* Twist one sample short, no Anhedral or the Chord mirrored.
AttachAeros ==
    {[Radial |-> x[1],
      Chord |-> [i \in 1..Len(x[1]) |-> i],
      Twist |-> IF x[2] /\ x[1] # << >> THEN Some(<< 1 >>) ELSE None,
      Sweep |-> None,
      Anhedral |-> IF x[3] THEN Some([i \in 1..Len(x[1]) |-> Len(x[1]) + 1 - i]) ELSE None] :
       x \in AttachStations \X BOOLEAN \X BOOLEAN}

\* attach_interpolators(grid, t, a) on the grid build_grid returned, as
\* main.py calls it (line 170).  Line 168 binds interp_tip, lines 171-185
\* interp_aero; a ValueError of _make_interp_closure leaves the fields not
\* yet assigned as they were.  TipFieldMap is tip_field_map (lines 150-167):
\* every field of the TipData under its name.
AttachCall(t, a) ==
    /\ pc = "grid_done"
    /\ atip' = Some(t)
    /\ aaero' = a
    /\ LET TipFieldMap == [k \in TipFieldNames |-> t[k]] IN
       IF Closures(t.STA, TipFieldMap) = {}
       THEN /\ pc' = "attach_raised"
            /\ error' = "ValueError"
            /\ grid' = grid
       ELSE \E ct \in Closures(t.STA, TipFieldMap) :
            IF IsNone(a)
            THEN /\ grid' = [grid EXCEPT !.interp_tip = Some(ct), !.interp_aero = None]
                 /\ pc' = "grid_attached"
                 /\ error' = error
            ELSE IF Closures(Val(a).Radial, AeroFieldMap(Val(a))) = {}
            THEN /\ grid' = [grid EXCEPT !.interp_tip = Some(ct)]
                 /\ pc' = "attach_raised"
                 /\ error' = "ValueError"
            ELSE \E ca \in Closures(Val(a).Radial, AeroFieldMap(Val(a))) :
                 /\ grid' = [grid EXCEPT !.interp_tip = Some(ct), !.interp_aero = Some(ca)]
                 /\ pc' = "grid_attached"
                 /\ error' = error
    /\ UNCHANGED << offGrid, gsecs, nodes, elements, eval_points >>

GridAttach ==
    /\ pc = "grid_done"
    /\ \E t \in AttachTips : \E a \in {None} \cup {Some(d) : d \in AttachAeros} : AttachCall(t, a)

GridNext == GridBegin \/ GridElement \/ GridReturn \/ GridAttach

GridSpec == Init /\ [][GridNext]_vars

\* v is what C15 promises for the query q = (field, xq) of the series
\* (x, y): y0 at or below x0, yN at or above xN, and inside the domain the
\* linear interpolant of two bracketing samples, between their values.
EvalAsStated(x, y, xq, v) ==
    /\ xq <= x[1] => v = YScale * y[1]
    /\ xq >= x[Len(x)] => v = YScale * y[Len(x)]
    /\ (x[1] < xq /\ xq < x[Len(x)]) =>
           \E j \in 1..(Len(x) - 1) :
               /\ x[j] <= xq /\ xq <= x[j + 1] /\ x[j] < x[j + 1]
               /\ v * (x[j + 1] - x[j])
                     = YScale * (y[j] * (x[j + 1] - xq) + y[j + 1] * (xq - x[j]))
               /\ YScale * Min2(y[j], y[j + 1]) <= v
               /\ v <= YScale * Max2(y[j], y[j + 1])

\* C15: a query of a bound signal returns y0 for x <= x0, yN for x >= xN and
\* inside the domain the linear interpolant of the bracketing samples, which
\* lies between their values; it changes neither the closure nor the series.
\* The same holds of _interp1 on a series that is not empty.
C15_EvaluateClamped ==
    [][/\ (pc = "closure" /\ pc' = "closure") =>
            /\ closure' = closure /\ cx' = cx /\ cfmap' = cfmap
            /\ value' # None =>
                   EvalAsStated(closure.x, closure.fmap[query'[1]], query'[2], Val(value'))
       /\ (pc' = "interp1_done" /\ Len(cx') > 0) =>
            EvalAsStated(cx', cfmap'.EA, query'[2], Val(value'))]_vars

\* C16: a closure over an empty abscissa, or with a field of another length,
\* fails with DataShapeError and yields no closure; and no interpolation
\* returns a value for an empty series.
C16_EmptyRejected ==
    /\ (pc \in {"raised", "closure"} /\ (Len(cx) = 0 \/ Mismatched(cx, cfmap))) =>
           (pc = "raised" /\ error = "DataShapeError" /\ closure = NoClosure)
    /\ (pc = "interp1_done" /\ Len(cx) = 0) => value = None

\* The indices of the samples of x at the position p (np.unique's inverse).
At(x, p) == {i \in 1..Len(x) : x[i] = p}

RECURSIVE SumOver(_, _)
\* The sum of y over the indices I (np.bincount with weights).
SumOver(y, I) ==
    IF I = {} THEN 0
    ELSE LET i == CHOOSE k \in I : TRUE IN y[i] + SumOver(y, I \ {i})

\* The closure c holds the series (x, fm) sorted and with the samples that
\* share an x collapsed to their mean.
Collapsed(c, x, fm) ==
    /\ StrictlyIncreasing(c.x)
    /\ {c.x[i] : i \in 1..Len(c.x)} = {x[i] : i \in 1..Len(x)}
    /\ \A k \in DOMAIN fm : \A i \in 1..Len(c.x) :
           Cardinality(At(x, c.x[i])) * c.fmap[k][i] = SumOver(fm[k], At(x, c.x[i]))

\* Every closure that can be built from a permutation of the series (x, fm)
\* answers every query as c does.
OrderIndependent(c, x, fm) ==
    \A p \in ArgSorts([i \in 1..Len(x) |-> 0]) : \A o \in ArgSorts(Take(x, p)) :
        \A k \in DOMAIN fm : \A xq \in QueryPositions :
            ClosureInterp(Bind(Take(x, p), [f \in DOMAIN fm |-> Take(fm[f], p)], o), k, xq)
              = ClosureInterp(c, k, xq)

\* C17: the closure built from a series is the same function for every
\* permutation of its samples: the series is bound sorted by x, the samples
\* sharing an x collapsed to the mean of their values.
C17_OrderIndependent ==
    pc = "closure" => (Collapsed(closure, cx, cfmap) /\ OrderIndependent(closure, cx, cfmap))

\* ------------------------------------------------------------ loaders
\* A numeric row of the file is a pair (x, y): STA and EA for load_tip,
\* Radial and Chord for load_aero; the other columns are reordered and
\* merged as y is.  Loaded values are counted in 1/MeanScale, so that the
\* mean of up to MaxRows raw values is exact.

\* A file has at most MaxRows numeric rows.
MaxRows == 3

MeanScale == LcmUpTo(MaxRows)

RowLists == SeqsUpTo(MaxRows, SamplePositions \X YVals)

\* Column j of the rows.
Column(rs, j) == [i \in 1..Len(rs) |-> rs[i][j]]

\* load_aero._dedupe_and_sort (the module-level _dedupe_and_sort is the same
\* and is not called): np.unique of the sorted x, and per unique x the sum of
\* its values over their count.
DedupeAndSort(x, y) ==
    LET uniq == SetToSeq({x[i] : i \in 1..Len(x)})
    IN  [x |-> uniq,
         y |-> [k \in 1..Len(uniq) |->
                  Div(MeanScale * SumOver(y, At(x, uniq[k])), Cardinality(At(x, uniq[k])))]]

\* load_tip: the rows sorted by STA with np.argsort, nothing merged.  A table
\* without data rows is no table: ValueError.
LoadTip ==
    /\ pc = "idle"
    /\ \E rs \in RowLists :
           /\ rows' = rs
           /\ IF rs = << >>
              THEN /\ pc' = "raised"
                   /\ error' = "ValueError"
                   /\ loaded' = loaded
              ELSE /\ \E order \in ArgSorts(Column(rs, 1)) :
                          loaded' = [kind |-> "tip",
                                     x |-> Take(Column(rs, 1), order),
                                     y |-> [i \in 1..Len(rs) |-> MeanScale * rs[order[i]][2]]]
                   /\ pc' = "loaded"
                   /\ error' = error
    /\ UNCHANGED offLoad

\* load_aero: the rows sorted by Radial and merged by _dedupe_and_sort.  No
\* numeric row: ValueError.
LoadAero ==
    /\ pc = "idle"
    /\ \E rs \in RowLists :
           /\ rows' = rs
           /\ IF rs = << >>
              THEN /\ pc' = "raised"
                   /\ error' = "ValueError"
                   /\ loaded' = loaded
              ELSE /\ \E d \in {DedupeAndSort(Column(rs, 1), Column(rs, 2))} :
                          loaded' = [kind |-> "aero", x |-> d.x, y |-> d.y]
                   /\ pc' = "loaded"
                   /\ error' = error
    /\ UNCHANGED offLoad

LoadNext == LoadTip \/ LoadAero

LoadSpec == Init /\ [][LoadNext]_vars

\* C18: every series the loaders return has strictly increasing x: the rows
\* are sorted by x, and the rows sharing an x are merged into one whose
\* values are the means of theirs.
C18_LoadedStrictlyIncreasing ==
    pc = "loaded" =>
        /\ StrictlyIncreasing(loaded.x)
        /\ {loaded.x[i] : i \in 1..Len(loaded.x)} = {rows[i][1] : i \in 1..Len(rows)}
        /\ Len(loaded.y) = Len(loaded.x)
        /\ \A i \in 1..Len(loaded.x) :
               Cardinality(At(Column(rows, 1), loaded.x[i])) * loaded.y[i]
                 = MeanScale * SumOver(Column(rows, 2), At(Column(rows, 1), loaded.x[i]))

\* ------------------------------------------------------------ writers
\* A y offset is an integer count of tenths; what is written is its text.
\* Of blade.ref the NEUTR and BODY translations are modelled, of blade.beam
\* the node positions: the lines that carry a y offset.

OffsetVals == (0 - 2)..3

\* A grid has at most MaxElems elements.
MaxElems == 2

\* _f: f"{val:.10f}" for val = t/10
Fmt10(t) ==
    (IF t < 0 THEN "-" ELSE "") \o ToString(Abs(t) \div 10) \o "." \o ToString(Abs(t) % 10)
      \o "000000000"

\* The calls explored: with or without the keyword y_sign, on a grid of
\* elems elements with or without interp_tip attached, the interpolated
\* YNA, YCG and YCT being the same at every position.
WriteCalls ==
    [y_sign : {None, Some(1), Some(0 - 1)}, attached : BOOLEAN, elems : 1..MaxElems,
     YNA : OffsetVals, YCG : OffsetVals, YCT : OffsetVals]

\* The NEUTR and BODY frames of the nodes 1..2*elems+1, lines 54-85.
RefsLines(c) ==
    [k \in 1..(2 * (2 * c.elems + 1)) |->
        IF k % 2 = 1 THEN [frame |-> "NEUTR", node |-> (k + 1) \div 2, y |-> Fmt10(c.YNA)]
        ELSE [frame |-> "BODY", node |-> k \div 2, y |-> Fmt10(c.YCG)]]

\* The three node positions of the elements 1..elems, lines 105-137: node
\* ids 2e-1, 2e, 2e+1, offset YCT - YNA.
BeamLines(c) ==
    [k \in 1..(3 * c.elems) |->
        [frame |-> "NEUTR", node |-> 2 * ((k + 2) \div 3) - 1 + ((k + 2) % 3),
         y |-> Fmt10(c.YCT - c.YNA)]]

\* A call of a writer whose signature has no parameter y_sign: with the
\* keyword it raises TypeError before the body runs; without interp_tip it
\* raises RuntimeError; else it writes the lines.
WriteCall(fn, c, lines) ==
    /\ pc = "idle"
    /\ wcall' = [fn |-> fn, arg |-> c]
    /\ IF ~IsNone(c.y_sign)
       THEN pc' = "raised" /\ error' = "TypeError" /\ emitted' = emitted
       ELSE IF ~c.attached
       THEN pc' = "raised" /\ error' = "RuntimeError" /\ emitted' = emitted
       ELSE pc' = "written" /\ error' = error /\ emitted' = lines
    /\ UNCHANGED offWrite

\* write_refs(tip, grid, name, out_path[, y_sign=...])
WriteRefs == \E c \in WriteCalls : WriteCall("write_refs", c, RefsLines(c))

\* write_beam_file(tip, grid, name, nu, out_path[, y_sign=...])
WriteBeamFile == \E c \in WriteCalls : WriteCall("write_beam_file", c, BeamLines(c))

WriteNext == WriteRefs \/ WriteBeamFile

WriteSpec == Init /\ [][WriteNext]_vars

\* The y offset that line k of the call w carries before any mirroring.
OffsetOf(w, k) ==
    IF w.fn = "write_beam_file" THEN w.arg.YCT - w.arg.YNA
    ELSE IF k % 2 = 1 THEN w.arg.YNA ELSE w.arg.YCG

\* C19: write_refs and write_beam_file accept y_sign, and every y offset
\* they emit is y_sign times the value: with y_sign = -1, YNA = 0.1 and
\* YCG = 0.2 are written as -0.1000000000 and -0.2000000000.
C19_YSignMirrors ==
    (pc \in {"raised", "written"} /\ wcall.arg.attached /\ ~IsNone(wcall.arg.y_sign)) =>
        /\ pc = "written"
        /\ Len(emitted) > 0
        /\ \A k \in 1..Len(emitted) :
               emitted[k].y = Fmt10(Val(wcall.arg.y_sign) * OffsetOf(wcall, k))

\* ------------------------------------- the selector: size bounds and cap
\* The sections of the next state strictly between a and b.
NewBetween(a, b) == {sections'[k] : k \in 1..Len(sections')} \cap ((a + 1)..(b - 1))

\* The least n with n * m >= dr: ceil(dr / m).
LeastParts(dr, m) == CHOOSE n \in 1..(MaxX + 1) : n * m >= dr /\ (n - 1) * m < dr

\* A pass of the max_dr loop splits every interval longer than max_dr + slack
\* into ceil(dr / max_dr) equal parts by new sections tagged MAX_DR, and
\* leaves the other intervals whole.
MaxDrSplits(slack) ==
    (pc = "max_dr" /\ MaxDrActive(cfg)) =>
        \A i \in 1..(Len(sections) - 1) :
            LET a == sections[i]
                b == sections[i + 1]
            IN  IF b - a > Val(cfg.max_dr) + slack
                THEN LET n == LeastParts(b - a, Val(cfg.max_dr))
                     IN  /\ NewBetween(a, b)
                               = {q \in (a + 1)..(b - 1) :
                                    \E k \in 1..(n - 1) : n * (q - a) = k * (b - a)}
                         /\ Cardinality(NewBetween(a, b)) = n - 1
                         /\ \A q \in NewBetween(a, b) : HasTag(reasons', q, TagMAXDR)
                ELSE NewBetween(a, b) = {}

\* No section carries an ERR tag yet.
NothingRefined == \A r \in DOMAIN reasons : ~HasKind(reasons, r, "ERR")

\* While the max_dr loop runs no refinement has happened; when refinement
\* starts every interval is at most max_dr + slack long or the element count
\* has reached max_elems.
MaxDrFirst(slack) ==
    /\ pc = "max_dr" => (sweeps = 0 /\ NothingRefined)
    /\ (pc = "refine" /\ sweeps = 0 /\ MaxDrActive(cfg)) =>
           \/ \A i \in 1..(Len(sections) - 1) :
                  sections[i + 1] - sections[i] <= Val(cfg.max_dr) + slack
           \/ Len(sections) - 1 >= cfg.max_elems

\* C21 as stated: with max_dr > 0 the max-length enforcement runs before any
\* error refinement, each pass splits every interval longer than max_dr into
\* ceil(dr / max_dr) equal parts by new sections tagged MAX_DR, and when
\* refinement starts every interval is at most max_dr long or the element
\* count is at least max_elems.
C21_MaxDrAsStated == [][MaxDrSplits(0)]_vars /\ [] MaxDrFirst(0)

\* C21 amended: the same with the length the code splits at, max_dr + 1e-12,
\* in place of max_dr.
C21_MaxDrFirst == [][MaxDrSplits(EPS)]_vars /\ [] MaxDrFirst(EPS)

\* Refinement is about to start after a pass that cut one interval in three:
\* two MAX_DR sections next to each other, every interval within max_dr.
C21_Witness ==
    /\ pc = "refine"
    /\ sweeps = 0
    /\ MaxDrActive(cfg)
    /\ Len(sections) - 1 < cfg.max_elems
    /\ \E i \in 2..(Len(sections) - 2) :
           /\ reasons[sections[i]] = << TagMAXDR >>
           /\ reasons[sections[i + 1]] = << TagMAXDR >>
    /\ \A i \in 1..(Len(sections) - 1) : sections[i + 1] - sections[i] <= Val(cfg.max_dr)

\* A step of the cap loop leaves no interval longer than max_dr that was not
\* there before the step.
CapKeepsMaxDr ==
    (pc = "cap" /\ MaxDrActive(cfg)) =>
        \A i \in 1..(Len(sections') - 1) :
            sections'[i + 1] - sections'[i] > Val(cfg.max_dr) =>
                \E j \in 1..(Len(sections) - 1) :
                    sections[j] = sections'[i] /\ sections[j + 1] = sections'[i + 1]

\* C22: size bounds outrank the element cap: with max_dr set, the final cap
\* enforcement never removes a section whose removal would leave an interval
\* longer than max_dr, so enforcing max_elems makes no interval of the output
\* exceed max_dr.
C22_CapKeepsMaxDr == [][CapKeepsMaxDr]_vars

\* The interior sections (by index) that are unprotected and have a
\* neighbouring interval shorter than min_dr - slack.
Offenders(slack) ==
    {i \in 2..(Len(sections) - 1) :
        /\ ~IsProtected(reasons, sections[i])
        /\ \/ sections[i] - sections[i - 1] < Val(cfg.min_dr) - slack
           \/ sections[i + 1] - sections[i] < Val(cfg.min_dr) - slack}

\* When the reason entry of the position r was recorded: its place among the
\* keys of reasons.
RecordedAt(r) == CHOOSE k \in 1..Len(rkeys) : rkeys[k] = r

\* A step of the min_dr loop with an offender: exactly the offender recorded
\* earliest goes, with its reason entry, and the loop runs on.
MinDrRemoves(slack) ==
    (pc = "min_dr" /\ MinDrActive(cfg) /\ Offenders(slack) # {}) =>
        \E i \in Offenders(slack) :
            /\ \A j \in Offenders(slack) : RecordedAt(sections[i]) <= RecordedAt(sections[j])
            /\ sections' = RemoveAt(sections, i)
            /\ reasons' = [r \in (DOMAIN reasons) \ {sections[i]} |-> reasons[r]]
            /\ pc' = "min_dr"

\* C23: during min-length enforcement each step removes exactly one section:
\* among the unprotected interior sections with a neighbouring interval
\* shorter than min_dr, the one whose reason tag was recorded earliest; its
\* reason entry goes with it, every other section and reason is unchanged,
\* and the scan restarts.
C23_RemovesEarliest == [][MinDrRemoves(0)]_vars

\* The position r carries a START, END, JUMP or VERTEX tag in rs.
CarriesHardTag(rs, r) ==
    HasKind(rs, r, "START") \/ HasKind(rs, r, "END") \/ HasKind(rs, r, "JUMP")
      \/ HasKind(rs, r, "VERTEX")

\* Every interior section of the list s with a left or right interval
\* shorter than min_dr - slack carries a hard tag in rs.
ShortOnlyAtHardTags(s, rs, slack) ==
    \A i \in 2..(Len(s) - 1) :
        (s[i] - s[i - 1] < Val(cfg.min_dr) - slack \/ s[i + 1] - s[i] < Val(cfg.min_dr) - slack)
            => CarriesHardTag(rs, s[i])

\* From the end of the min_dr loop on (cap enforcement, final deduplication,
\* report) no unprotected interior section borders an interval shorter than
\* min_dr - slack.
MinDrHolds(slack) ==
    MinDrActive(cfg) =>
        /\ pc \in {"cap", "report"} => ShortOnlyAtHardTags(sections, reasons, slack)
        /\ Returned => ShortOnlyAtHardTags(report.sections, report.reasons, slack)

\* C24 as stated: with min_dr > 0, in the final output every interior section
\* with a left or right interval shorter than min_dr carries a START, END,
\* JUMP or VERTEX tag, and this holds through the cap enforcement and the
\* final deduplication.
C24_MinDrAsStated == MinDrHolds(0)

\* C24 amended: the same for the intervals shorter than min_dr - 1e-12, the
\* length below which the code merges.
C24_MinDrHolds == MinDrHolds(EPS)

\* A returned run in which the merge removed a section and a protected
\* interior section still borders a short interval.
C24_Witness ==
    /\ Returned
    /\ MinDrActive(cfg)
    /\ MergeWarned
    /\ \E i \in 2..(Len(report.sections) - 1) :
           /\ CarriesHardTag(report.reasons, report.sections[i])
           /\ report.sections[i] - report.sections[i - 1] < Val(cfg.min_dr) - EPS

\* The unprotected interior sections, by index.
Droppable == {i \in 2..(Len(sections) - 1) : ~IsProtected(reasons, sections[i])}

\* Twice the distance of the section i from the midpoint of [first, last].
FromMid(i) == Abs((sections[i] - sections[1]) - (sections[Len(sections)] - sections[i]))

\* A step of the cap loop: over the cap and with a droppable section, exactly
\* the droppable section nearest to the midpoint goes (the lowest index among
\* the nearest) with its reason entry, and the loop runs on; otherwise
\* nothing is removed and the loop stops.
CapDropsNearest ==
    pc = "cap" =>
        IF Len(sections) - 1 > cfg.max_elems /\ Droppable # {}
        THEN \E i \in Droppable :
                /\ \A j \in Droppable : FromMid(i) <= FromMid(j)
                /\ \A j \in Droppable : FromMid(j) = FromMid(i) => i <= j
                /\ Len(sections') = Len(sections) - 1
                /\ \A k \in 1..Len(sections') :
                       sections'[k] = IF k < i THEN sections[k] ELSE sections[k + 1]
                /\ reasons' = [r \in (DOMAIN reasons) \ {sections[i]} |-> reasons[r]]
                /\ pc' = "cap"
        ELSE /\ sections' = sections
             /\ reasons' = reasons
             /\ pc' = "report"

\* C25: while the element count exceeds max_elems each cap step removes
\* exactly one section, the unprotected interior section nearest to the
\* midpoint of [first section, last section], ties going to the lowest index,
\* together with its reason entry; the loop stops as soon as the count is
\* within max_elems or no unprotected interior section is left.
C25_CapDropsNearest == [][CapDropsNearest]_vars

\* A return under the cap 2 after the cap loop dropped the first of two
\* MAX_DR sections equally far from the midpoint: the second one is left,
\* behind an interval longer than max_dr.
C25_Witness ==
    /\ Returned
    /\ MaxDrActive(cfg)
    /\ ~MergeWarned
    /\ cfg.max_elems = 2
    /\ report.elems = 2
    /\ report.reasons[report.sections[2]] = << TagMAXDR >>
    /\ report.sections[2] - report.sections[1] = 2 * Val(cfg.max_dr)
    /\ report.sections[3] - report.sections[2] = Val(cfg.max_dr)

\* --------------------------------------------- the selector: the start
\* The radial positions whose chord exceeds c_eps, by index.
ChordOver == {i \in 1..Len(aero.Chord) : aero.Chord[i] * cfg.c_eps[2] > cfg.c_eps[1]}

\* The position p clamped into [domain_min, domain_max): p itself inside,
\* domain_min below, and above the top the code's max(rmin, rmax - 1e-12).
ClampedStart(p) ==
    IF p < tip.STA[1] THEN tip.STA[1]
    ELSE IF p >= rmaxOf(tip) THEN Max2(tip.STA[1], rmaxOf(tip) - EPS)
    ELSE p

\* The call has got past start detection.
Started == pc \in {"max_dr", "refine", "min_dr", "cap", "report", "done"}

\* C26: with no start_override and chord data in which some chord exceeds
\* c_eps, the start used is the first radial position whose chord exceeds
\* c_eps, clamped into [domain_min, domain_max), whatever that position
\* (zero included); the structural fallback is used only when no chord
\* exceeds c_eps or no chord data is given.
C26_StartFromChord ==
    (Started /\ IsNone(cfg.r_start) /\ aero.present /\ ChordOver # {}) =>
        /\ r0 = ClampedStart(aero.Radial[CHOOSE i \in ChordOver : \A j \in ChordOver : i <= j])
        /\ Returned => report.r_start_used = r0

\* No chord data, or no chord above c_eps.
NoUsableChord == ~HasChord(aero) \/ ChordOver = {}

\* The largest magnitude over the four structural signals and all stations,
\* in raw units.
GlobalMax ==
    LET all == tip.EA \o tip.EJY \o tip.EJZ \o tip.GJ
    IN  CHOOSE m \in {Abs(all[i]) : i \in 1..Len(all)} :
            \A i \in 1..Len(all) : Abs(all[i]) <= m

\* The stations at which some structural signal exceeds 1e-6 * base, by index.
StiffFrom(base) ==
    {i \in 1..Len(tip.STA) :
        \E k \in 1..4 : 1000000 * StructSignals(tip)[k][2][i] > base}

\* The first station of the set S of indices, the first station of all if
\* S is empty.
FirstStation(S) ==
    IF S = {} THEN tip.STA[1] ELSE tip.STA[CHOOSE i \in S : \A j \in S : i <= j]

\* C27 as stated: with no start_override and no usable chord data the start
\* used is the first structural station at which one of EA, EJY, EJZ, GJ
\* exceeds 1e-6 times the global maximum magnitude, and the first station
\* when there is none.
C27_StructAsStated ==
    (Started /\ IsNone(cfg.r_start) /\ NoUsableChord) =>
        r0 = FirstStation(StiffFrom(GlobalMax))

\* C27 amended: the threshold is 1e-6 times the larger of 1.0 and the global
\* maximum magnitude, and the station found is clamped into
\* [domain_min, domain_max).
C27_StartFromStruct ==
    (Started /\ IsNone(cfg.r_start) /\ NoUsableChord) =>
        /\ r0 = ClampedStart(FirstStation(StiffFrom(Max2(tip.unit, GlobalMax))))
        /\ Returned => report.r_start_used = r0

\* A start detected at an interior station, the first station carrying no
\* stiffness.
C27_Witness ==
    /\ Returned
    /\ IsNone(cfg.r_start)
    /\ ~aero.present
    /\ Len(tip.STA) >= 3
    /\ GlobalMax > 0
    /\ StiffFrom(Max2(tip.unit, GlobalMax)) # {}
    /\ r0 = tip.STA[2]

\* The start used is the override ov clamped into [domain_min, domain_max).
OverrideClamped(ov) ==
    /\ (tip.STA[1] <= ov /\ ov < rmaxOf(tip)) => r0 = ov
    /\ ov < tip.STA[1] => r0 = tip.STA[1]
    /\ ov >= rmaxOf(tip) => (tip.STA[1] <= r0 /\ r0 < rmaxOf(tip))

\* C28: with a start_override the start used is the override clamped into
\* [domain_min, domain_max): the override itself when it lies inside,
\* domain_min when it is below, and a value >= domain_min and strictly below
\* domain_max when it is at or above domain_max; detection plays no part.
C28_OverrideClamped ==
    (Started /\ ~IsNone(cfg.r_start)) =>
        /\ OverrideClamped(Val(cfg.r_start))
        /\ Returned => report.r_start_used = r0

\* ---------------------------------------- the selector: chord vertices
TagVERTEX == Tag("VERTEX", "Chord")

\* The sign of d: -1, 0 or 1.
Sign(d) == IF d > 0 THEN 1 ELSE IF d < 0 THEN 0 - 1 ELSE 0

\* The chord has a local extremum at the sample i (the slopes on its two
\* sides differ in sign) and the larger of the two adjacent chord changes
\* exceeds 0.1% of the largest |chord|.
ChordExtremumAt(i) ==
    LET c == aero.Chord
        big == CHOOSE m \in {Abs(c[k]) : k \in 1..Len(c)} : \A k \in 1..Len(c) : Abs(c[k]) <= m
    IN  /\ Sign(c[i] - c[i - 1]) # Sign(c[i + 1] - c[i])
        /\ \/ 1000 * Abs(c[i] - c[i - 1]) > big
           \/ 1000 * Abs(c[i + 1] - c[i]) > big

\* The sections as lines 206-239 appended them.
Appended == HardAppended(tip, aero, cfg, r0).sections

\* C29: with chord data of at least 3 samples a section tagged VERTEX:Chord
\* is inserted at an interior raw radial station r[i], start <= r[i] <=
\* domain_max, exactly when the chord has a local extremum there and the
\* larger adjacent chord change exceeds 0.1% of the largest |chord|; the
\* first and the last chord sample never produce a VERTEX section.
C29_VertexIffExtremum ==
    (Started /\ aero.present /\ Len(aero.Radial) >= 3) =>
        /\ \A i \in 2..(Len(aero.Radial) - 1) :
               (r0 <= aero.Radial[i] /\ aero.Radial[i] <= rmaxOf(tip)) =>
                   ((InList(Appended, aero.Radial[i]) /\ HasTag(reasons, aero.Radial[i], TagVERTEX))
                       <=> ChordExtremumAt(i))
        /\ ~HasTag(reasons, aero.Radial[1], TagVERTEX)
        /\ ~HasTag(reasons, aero.Radial[Len(aero.Radial)], TagVERTEX)

\* A returned run with a VERTEX:Chord section at a corner of a plateau (one
\* side flat) and an interior chord station beyond the start without the tag.
C29_Witness ==
    /\ Returned
    /\ aero.present
    /\ Len(aero.Radial) >= 4
    /\ \E i \in 2..(Len(aero.Radial) - 1) :
           /\ aero.Chord[i] = aero.Chord[i - 1]
           /\ InList(report.sections, aero.Radial[i])
           /\ HasTag(report.reasons, aero.Radial[i], TagVERTEX)
    /\ \E j \in 2..(Len(aero.Radial) - 1) :
           /\ r0 <= aero.Radial[j]
           /\ ~HasTag(report.reasons, aero.Radial[j], TagVERTEX)

\* ----------------------------------------------- the selector: the report
\* The tag list tags is non-empty and holds no tag twice.
TagsDistinct(tags) ==
    /\ Len(tags) >= 1
    /\ \A i \in 1..Len(tags) : \A j \in 1..Len(tags) : tags[i] = tags[j] => i = j

\* C30: the report is consistent with the returned sections: elems is
\* len(sections) - 1 and nodes is 2 * len(sections) - 1, the keys of
\* report.reasons are exactly the final section positions, each with a
\* non-empty tag list without duplicates, and a position dropped by merging,
\* capping or deduplication has no entry.
C30_ReportConsistent ==
    Returned =>
        /\ report.sections = sections
        /\ report.elems = Len(report.sections) - 1
        /\ report.nodes = 2 * Len(report.sections) - 1
        /\ DOMAIN report.reasons = {report.sections[i] : i \in 1..Len(report.sections)}
        /\ \A r \in DOMAIN report.reasons : TagsDistinct(report.reasons[r])
====
